---------------------------- MODULE Spec2Model ----------------------------
(***************************************************************************)
(* Model of the HDF5 Java-C bridge of jhdf5 (source/c):                    *)
(*   h5Constants.h / h5Constants.c  the constant translator J2C            *)
(*   exceptionImp.c                 the exception bridge (raisers, error   *)
(*                                  stack readers, stack dump)             *)
(*                                                                         *)
(* Conventions.                                                            *)
(*  - A native library constant (H5E_ARGS, H5S_UNLIMITED, ...) is          *)
(*    represented by its name, a string; its numeric value belongs to the  *)
(*    linked native library and is not part of this repository.            *)
(*  - A managed-side identifier macro JH5x_NAME is written without its     *)
(*    leading "J": the row <<"H5E_ARGS", 1270>> of JH5Defines stands for   *)
(*    `#define JH5E_ARGS 1270`, and the row <<"H5E_ARGS", "H5E_ARGS", "">> *)
(*    of SwitchCases for `case JH5E_ARGS : return H5E_ARGS;`.  The third   *)
(*    component of a switch row is the cast written before the returned    *)
(*    constant ("int" for `(int)H5S_UNLIMITED`, "" for none).              *)
(*  - One action is one complete call of a handler.  The variable `call`   *)
(*    holds what the call did (its result, the JNI / native calls it made  *)
(*    in order, the lines it wrote to stderr) until control is back in     *)
(*    managed code.                                                        *)
(***************************************************************************)
EXTENDS Integers, Sequences, FiniteSets, TLC

(***************************************************************************)
(* h5Constants.h: the active #define lines, in file order.                 *)
(***************************************************************************)
JH5Defines ==
  <<
    <<"H5_SZIP_MAX_PIXELS_PER_BLOCK", 1000>>, <<"H5_SZIP_NN_OPTION_MASK", 1010>>, <<"H5_SZIP_EC_OPTION_MASK", 1020>>,
    <<"H5_SZIP_ALLOW_K13_OPTION_MASK", 1021>>, <<"H5_SZIP_CHIP_OPTION_MASK", 1022>>, <<"H5D_ALLOC_TIME_DEFAULT", 1030>>,
    <<"H5D_ALLOC_TIME_EARLY", 1040>>, <<"H5D_ALLOC_TIME_ERROR", 1050>>, <<"H5D_ALLOC_TIME_INCR", 1060>>,
    <<"H5D_ALLOC_TIME_LATE", 1070>>, <<"H5D_CHUNKED", 1080>>, <<"H5D_COMPACT", 1090>>,
    <<"H5D_CONTIGUOUS", 1100>>, <<"H5D_FILL_TIME_ALLOC", 1110>>, <<"H5D_FILL_TIME_ERROR", 1120>>,
    <<"H5D_FILL_TIME_NEVER", 1130>>, <<"H5D_FILL_VALUE_DEFAULT", 1140>>, <<"H5D_FILL_VALUE_ERROR", 1150>>,
    <<"H5D_FILL_VALUE_UNDEFINED", 1160>>, <<"H5D_FILL_VALUE_USER_DEFINED", 1170>>, <<"H5D_LAYOUT_ERROR", 1180>>,
    <<"H5D_NLAYOUTS", 1190>>, <<"H5D_SPACE_STATUS_ALLOCATED", 1200>>, <<"H5D_SPACE_STATUS_ERROR", 1210>>,
    <<"H5D_SPACE_STATUS_NOT_ALLOCATED", 1220>>, <<"H5D_SPACE_STATUS_PART_ALLOCATED", 1230>>, <<"H5E_ALIGNMENT", 1240>>,
    <<"H5E_ALREADYEXISTS", 1250>>, <<"H5E_ALREADYINIT", 1260>>, <<"H5E_ARGS", 1270>>,
    <<"H5E_ATOM", 1280>>, <<"H5E_ATTR", 1290>>, <<"H5E_BADATOM", 1300>>,
    <<"H5E_BADFILE", 1310>>, <<"H5E_BADGROUP", 1320>>, <<"H5E_BADMESG", 1330>>,
    <<"H5E_BADRANGE", 1340>>, <<"H5E_BADSELECT", 1350>>, <<"H5E_BADSIZE", 1360>>,
    <<"H5E_BADTYPE", 1370>>, <<"H5E_BADVALUE", 1380>>, <<"H5E_BTREE", 1390>>,
    <<"H5E_CACHE", 1400>>, <<"H5E_CALLBACK", 1410>>, <<"H5E_CANAPPLY", 1420>>,
    <<"H5E_CANTCLIP", 1450>>, <<"H5E_CANTCLOSEFILE", 1460>>, <<"H5E_CANTCONVERT", 1470>>,
    <<"H5E_CANTCOPY", 1480>>, <<"H5E_CANTCOUNT", 1490>>, <<"H5E_CANTCREATE", 1500>>,
    <<"H5E_CANTDEC", 1510>>, <<"H5E_CANTDECODE", 1520>>, <<"H5E_CANTDELETE", 1530>>,
    <<"H5E_CANTENCODE", 1540>>, <<"H5E_CANTFLUSH", 1550>>, <<"H5E_CANTFREE", 1560>>,
    <<"H5E_CANTGET", 1570>>, <<"H5E_CANTINC", 1580>>, <<"H5E_CANTINIT", 1590>>,
    <<"H5E_CANTINSERT", 1600>>, <<"H5E_CANTLIST", 1610>>, <<"H5E_CANTLOAD", 1620>>,
    <<"H5E_CANTLOCK", 1630>>, <<"H5E_CANTMAKETREE", 1640>>, <<"H5E_CANTNEXT", 1650>>,
    <<"H5E_CANTOPENFILE", 1660>>, <<"H5E_CANTOPENOBJ", 1670>>, <<"H5E_CANTREGISTER", 1690>>,
    <<"H5E_CANTRELEASE", 1700>>, <<"H5E_CANTSELECT", 1710>>, <<"H5E_CANTSET", 1730>>,
    <<"H5E_CANTSPLIT", 1740>>, <<"H5E_CANTUNLOCK", 1750>>, <<"H5E_CLOSEERROR", 1760>>,
    <<"H5E_COMPLEN", 1770>>, <<"H5E_DATASET", 1790>>, <<"H5E_DATASPACE", 1800>>,
    <<"H5E_DATATYPE", 1810>>, <<"H5E_DUPCLASS", 1820>>, <<"H5E_EFL", 1830>>,
    <<"H5E_EXISTS", 1840>>, <<"H5E_FCNTL", 1850>>, <<"H5E_FILE", 1860>>,
    <<"H5E_FILEEXISTS", 1870>>, <<"H5E_FILEOPEN", 1880>>, <<"H5E_FUNC", 1900>>,
    <<"H5E_HEAP", 1910>>, <<"H5E_INTERNAL", 1920>>, <<"H5E_IO", 1930>>,
    <<"H5E_LINK", 1940>>, <<"H5E_LINKCOUNT", 1950>>, <<"H5E_MOUNT", 1960>>,
    <<"H5E_MPI", 1970>>, <<"H5E_MPIERRSTR", 1980>>, <<"H5E_NOFILTER", 1990>>,
    <<"H5E_NOIDS", 2000>>, <<"H5E_NONE_MAJOR", 2010>>, <<"H5E_NONE_MINOR", 2020>>,
    <<"H5E_NOSPACE", 2030>>, <<"H5E_NOTCACHED", 2040>>, <<"H5E_NOTFOUND", 2050>>,
    <<"H5E_NOTHDF5", 2060>>, <<"H5E_OHDR", 2070>>, <<"H5E_OVERFLOW", 2080>>,
    <<"H5E_PLINE", 2090>>, <<"H5E_PLIST", 2100>>, <<"H5E_PROTECT", 2110>>,
    <<"H5E_READERROR", 2120>>, <<"H5E_REFERENCE", 2130>>, <<"H5E_RESOURCE", 2140>>,
    <<"H5E_RS", 2150>>, <<"H5E_SEEKERROR", 2160>>, <<"H5E_SETLOCAL", 2170>>,
    <<"H5E_STORAGE", 2190>>, <<"H5E_SYM", 2200>>, <<"H5E_TRUNCATED", 2220>>,
    <<"H5E_TST", 2230>>, <<"H5E_UNINITIALIZED", 2240>>, <<"H5E_UNSUPPORTED", 2250>>,
    <<"H5E_VERSION", 2260>>, <<"H5E_VFL", 2270>>, <<"H5E_WALK_DOWNWARD", 2280>>,
    <<"H5E_WALK_UPWARD", 2290>>, <<"H5E_WRITEERROR", 2300>>, <<"H5F_ACC_CREAT", 2310>>,
    <<"H5F_ACC_DEBUG", 2320>>, <<"H5F_ACC_EXCL", 2330>>, <<"H5F_ACC_RDONLY", 2340>>,
    <<"H5F_ACC_RDWR", 2350>>, <<"H5F_ACC_TRUNC", 2360>>, <<"H5F_CLOSE_DEFAULT", 2370>>,
    <<"H5F_CLOSE_SEMI", 2380>>, <<"H5F_CLOSE_STRONG", 2390>>, <<"H5F_CLOSE_WEAK", 2400>>,
    <<"H5F_OBJ_ALL", 2410>>, <<"H5F_OBJ_ATTR", 2415>>, <<"H5F_OBJ_DATASET", 2420>>,
    <<"H5F_OBJ_DATATYPE", 2430>>, <<"H5F_OBJ_FILE", 2440>>, <<"H5F_OBJ_GROUP", 2450>>,
    <<"H5F_OBJ_LOCAL", 2455>>, <<"H5F_SCOPE_DOWN", 2460>>, <<"H5F_SCOPE_GLOBAL", 2470>>,
    <<"H5F_SCOPE_LOCAL", 2480>>, <<"H5F_UNLIMITED", 2490>>, <<"H5F_LIBVER_EARLIEST", 2494>>,
    <<"H5F_LIBVER_LATEST", 2495>>, <<"H5G_DATASET", 2500>>, <<"H5G_GROUP", 2510>>,
    <<"H5G_LINK", 2520>>, <<"H5G_LINK_ERROR", 2530>>, <<"H5G_LINK_HARD", 2540>>,
    <<"H5G_LINK_SOFT", 2550>>, <<"H5G_NLIBTYPES", 2560>>, <<"H5G_NTYPES", 2570>>,
    <<"H5G_NUSERTYPES", 2580>>, <<"H5G_RESERVED_5", 2600>>, <<"H5G_RESERVED_6", 2610>>,
    <<"H5G_RESERVED_7", 2620>>, <<"H5G_SAME_LOC", 2630>>, <<"H5G_TYPE", 2640>>,
    <<"H5G_UNKNOWN", 2650>>, <<"H5G_USERTYPE", 2660>>, <<"H5I_ATTR", 2670>>,
    <<"H5I_BADID", 2680>>, <<"H5I_DATASET", 2690>>, <<"H5I_DATASPACE", 2700>>,
    <<"H5I_DATATYPE", 2710>>, <<"H5I_FILE", 2720>>, <<"H5I_FILE_CLOSING", 2730>>,
    <<"H5I_GENPROP_CLS", 2740>>, <<"H5I_GENPROP_LST", 2750>>, <<"H5I_GROUP", 2760>>,
    <<"H5I_INVALID_HID", 2770>>, <<"H5I_REFERENCE", 2790>>, <<"H5I_VFL", 2810>>,
    <<"H5O_TYPE_UNKNOWN", 5510>>, <<"H5O_TYPE_GROUP", 5520>>, <<"H5O_TYPE_DATASET", 5530>>,
    <<"H5O_TYPE_NAMED_DATATYPE", 5540>>, <<"H5O_TYPE_NTYPES", 5550>>, <<"H5L_TYPE_ERROR", 5560>>,
    <<"H5L_TYPE_HARD", 5570>>, <<"H5L_TYPE_SOFT", 5580>>, <<"H5L_TYPE_EXTERNAL", 5590>>,
    <<"H5L_TYPE_MAX", 5600>>, <<"H5P_DATASET_CREATE", 2820>>, <<"H5P_DATASET_CREATE_DEFAULT", 2830>>,
    <<"H5P_DATASET_XFER", 2840>>, <<"H5P_DATASET_XFER_DEFAULT", 2850>>, <<"H5P_DEFAULT", 2860>>,
    <<"H5P_FILE_ACCESS", 2870>>, <<"H5P_FILE_ACCESS_DEFAULT", 2880>>, <<"H5P_FILE_CREATE", 2890>>,
    <<"H5P_FILE_CREATE_DEFAULT", 2900>>, <<"H5P_NO_CLASS", 2930>>, <<"H5P_ROOT", 6000>>,
    <<"H5P_OBJECT_CREATE", 6010>>, <<"H5P_DATASET_ACCESS", 6020>>, <<"H5P_DATASET_ACCESS_DEFAULT", 6030>>,
    <<"H5P_FILE_MOUNT", 6040>>, <<"H5P_FILE_MOUNT_DEFAULT", 6050>>, <<"H5P_GROUP_CREATE", 6060>>,
    <<"H5P_GROUP_CREATE_DEFAULT", 6070>>, <<"H5P_GROUP_ACCESS", 6080>>, <<"H5P_GROUP_ACCESS_DEFAULT", 6090>>,
    <<"H5P_DATATYPE_CREATE", 6100>>, <<"H5P_DATATYPE_CREATE_DEFAULT", 6110>>, <<"H5P_DATATYPE_ACCESS", 6120>>,
    <<"H5P_DATATYPE_ACCESS_DEFAULT", 6130>>, <<"H5P_STRING_CREATE", 6140>>, <<"H5P_ATTRIBUTE_CREATE", 6150>>,
    <<"H5P_ATTRIBUTE_CREATE_DEFAULT", 6160>>, <<"H5P_OBJECT_COPY", 6170>>, <<"H5P_OBJECT_COPY_DEFAULT", 6180>>,
    <<"H5P_LINK_CREATE", 6190>>, <<"H5P_LINK_CREATE_DEFAULT", 6200>>, <<"H5P_LINK_ACCESS", 6210>>,
    <<"H5P_LINK_ACCESS_DEFAULT", 6220>>, <<"H5R_BADTYPE", 2950>>, <<"H5R_DATASET_REGION", 2960>>,
    <<"H5R_MAXTYPE", 2980>>, <<"H5R_OBJ_REF_BUF_SIZE", 2990>>, <<"H5R_OBJECT", 3000>>,
    <<"H5S_ALL", 3010>>, <<"H5S_MAX_RANK", 3030>>, <<"H5S_NO_CLASS", 3040>>,
    <<"H5S_NULL", 3045>>, <<"H5S_SCALAR", 3050>>, <<"H5S_SEL_ALL", 3060>>,
    <<"H5S_SEL_ERROR", 3070>>, <<"H5S_SEL_HYPERSLABS", 3080>>, <<"H5S_SEL_N", 3090>>,
    <<"H5S_SEL_NONE", 3100>>, <<"H5S_SEL_POINTS", 3110>>, <<"H5S_SELECT_AND", 3120>>,
    <<"H5S_SELECT_APPEND", 3130>>, <<"H5S_SELECT_INVALID", 3140>>, <<"H5S_SELECT_NOOP", 3150>>,
    <<"H5S_SELECT_NOTA", 3160>>, <<"H5S_SELECT_NOTB", 3170>>, <<"H5S_SELECT_OR", 3180>>,
    <<"H5S_SELECT_PREPEND", 3190>>, <<"H5S_SELECT_SET", 3200>>, <<"H5S_SELECT_XOR", 3210>>,
    <<"H5S_SIMPLE", 3220>>, <<"H5S_UNLIMITED", 3230>>, <<"H5T_ALPHA_B16", 3240>>,
    <<"H5T_ALPHA_B32", 3250>>, <<"H5T_ALPHA_B64", 3260>>, <<"H5T_ALPHA_B8", 3270>>,
    <<"H5T_ALPHA_F32", 3280>>, <<"H5T_ALPHA_F64", 3290>>, <<"H5T_ALPHA_I16", 3300>>,
    <<"H5T_ALPHA_I32", 3310>>, <<"H5T_ALPHA_I64", 3320>>, <<"H5T_ALPHA_I8", 3330>>,
    <<"H5T_ALPHA_U16", 3340>>, <<"H5T_ALPHA_U32", 3350>>, <<"H5T_ALPHA_U64", 3360>>,
    <<"H5T_ALPHA_U8", 3370>>, <<"H5T_ARRAY", 3380>>, <<"H5T_BITFIELD", 3390>>,
    <<"H5T_BKG_NO", 3400>>, <<"H5T_BKG_YES", 3410>>, <<"H5T_C_S1", 3420>>,
    <<"H5T_COMPOUND", 3430>>, <<"H5T_CONV_CONV", 3440>>, <<"H5T_CONV_FREE", 3450>>,
    <<"H5T_CONV_INIT", 3460>>, <<"H5T_CSET_ASCII", 3470>>, <<"H5T_CSET_ERROR", 3480>>,
    <<"H5T_CSET_RESERVED_10", 3500>>, <<"H5T_CSET_RESERVED_11", 3510>>, <<"H5T_CSET_RESERVED_12", 3520>>,
    <<"H5T_CSET_RESERVED_13", 3530>>, <<"H5T_CSET_RESERVED_14", 3540>>, <<"H5T_CSET_RESERVED_15", 3550>>,
    <<"H5T_CSET_RESERVED_2", 3560>>, <<"H5T_CSET_RESERVED_3", 3570>>, <<"H5T_CSET_RESERVED_4", 3580>>,
    <<"H5T_CSET_RESERVED_5", 3590>>, <<"H5T_CSET_RESERVED_6", 3600>>, <<"H5T_CSET_RESERVED_7", 3610>>,
    <<"H5T_CSET_RESERVED_8", 3620>>, <<"H5T_CSET_RESERVED_9", 3630>>, <<"H5T_DIR_ASCEND", 3640>>,
    <<"H5T_DIR_DEFAULT", 3650>>, <<"H5T_DIR_DESCEND", 3660>>, <<"H5T_ENUM", 3670>>,
    <<"H5T_FLOAT", 3680>>, <<"H5T_FORTRAN_S1", 3690>>, <<"H5T_IEEE_F32BE", 3700>>,
    <<"H5T_IEEE_F32LE", 3710>>, <<"H5T_IEEE_F64BE", 3720>>, <<"H5T_IEEE_F64LE", 3730>>,
    <<"H5T_INTEGER", 3740>>, <<"H5T_INTEL_B16", 3750>>, <<"H5T_INTEL_B32", 3760>>,
    <<"H5T_INTEL_B64", 3770>>, <<"H5T_INTEL_B8", 3780>>, <<"H5T_INTEL_F32", 3790>>,
    <<"H5T_INTEL_F64", 3800>>, <<"H5T_INTEL_I16", 3810>>, <<"H5T_INTEL_I32", 3820>>,
    <<"H5T_INTEL_I64", 3830>>, <<"H5T_INTEL_I8", 3840>>, <<"H5T_INTEL_U16", 3850>>,
    <<"H5T_INTEL_U32", 3860>>, <<"H5T_INTEL_U64", 3870>>, <<"H5T_INTEL_U8", 3880>>,
    <<"H5T_MIPS_B16", 3890>>, <<"H5T_MIPS_B32", 3900>>, <<"H5T_MIPS_B64", 3910>>,
    <<"H5T_MIPS_B8", 3920>>, <<"H5T_MIPS_F32", 3930>>, <<"H5T_MIPS_F64", 3940>>,
    <<"H5T_MIPS_I16", 3950>>, <<"H5T_MIPS_I32", 3960>>, <<"H5T_MIPS_I64", 3970>>,
    <<"H5T_MIPS_I8", 3980>>, <<"H5T_MIPS_U16", 3990>>, <<"H5T_MIPS_U32", 4000>>,
    <<"H5T_MIPS_U64", 4010>>, <<"H5T_MIPS_U8", 4020>>, <<"H5T_NATIVE_B16", 4030>>,
    <<"H5T_NATIVE_B32", 4040>>, <<"H5T_NATIVE_B64", 4050>>, <<"H5T_NATIVE_B8", 4060>>,
    <<"H5T_NATIVE_CHAR", 4070>>, <<"H5T_NATIVE_DOUBLE", 4080>>, <<"H5T_NATIVE_FLOAT", 4090>>,
    <<"H5T_NATIVE_HADDR", 4100>>, <<"H5T_NATIVE_HBOOL", 4110>>, <<"H5T_NATIVE_HERR", 4120>>,
    <<"H5T_NATIVE_HSIZE", 4130>>, <<"H5T_NATIVE_HSSIZE", 4140>>, <<"H5T_NATIVE_INT", 4150>>,
    <<"H5T_NATIVE_INT_FAST16", 4160>>, <<"H5T_NATIVE_INT_FAST32", 4170>>, <<"H5T_NATIVE_INT_FAST64", 4180>>,
    <<"H5T_NATIVE_INT_FAST8", 4190>>, <<"H5T_NATIVE_INT_LEAST16", 4200>>, <<"H5T_NATIVE_INT_LEAST32", 4210>>,
    <<"H5T_NATIVE_INT_LEAST64", 4220>>, <<"H5T_NATIVE_INT_LEAST8", 4230>>, <<"H5T_NATIVE_INT16", 4240>>,
    <<"H5T_NATIVE_INT32", 4250>>, <<"H5T_NATIVE_INT64", 4260>>, <<"H5T_NATIVE_INT8", 4270>>,
    <<"H5T_NATIVE_LDOUBLE", 4280>>, <<"H5T_NATIVE_LLONG", 4290>>, <<"H5T_NATIVE_LONG", 4300>>,
    <<"H5T_NATIVE_OPAQUE", 4310>>, <<"H5T_NATIVE_SCHAR", 4320>>, <<"H5T_NATIVE_SHORT", 4330>>,
    <<"H5T_NATIVE_UCHAR", 4340>>, <<"H5T_NATIVE_UINT", 4350>>, <<"H5T_NATIVE_UINT_FAST16", 4360>>,
    <<"H5T_NATIVE_UINT_FAST32", 4370>>, <<"H5T_NATIVE_UINT_FAST64", 4380>>, <<"H5T_NATIVE_UINT_FAST8", 4390>>,
    <<"H5T_NATIVE_UINT_LEAST16", 4400>>, <<"H5T_NATIVE_UINT_LEAST32", 4410>>, <<"H5T_NATIVE_UINT_LEAST64", 4420>>,
    <<"H5T_NATIVE_UINT_LEAST8", 4430>>, <<"H5T_NATIVE_UINT16", 4440>>, <<"H5T_NATIVE_UINT32", 4450>>,
    <<"H5T_NATIVE_UINT64", 4460>>, <<"H5T_NATIVE_UINT8", 4470>>, <<"H5T_NATIVE_ULLONG", 4480>>,
    <<"H5T_NATIVE_ULONG", 4490>>, <<"H5T_NATIVE_USHORT", 4500>>, <<"H5T_NCLASSES", 4510>>,
    <<"H5T_NO_CLASS", 4520>>, <<"H5T_NORM_ERROR", 4530>>, <<"H5T_NORM_IMPLIED", 4540>>,
    <<"H5T_NORM_MSBSET", 4550>>, <<"H5T_NORM_NONE", 4560>>, <<"H5T_NPAD", 4570>>,
    <<"H5T_NSGN", 4580>>, <<"H5T_OPAQUE", 4590>>, <<"H5T_OPAQUE_TAG_MAX", 4595>>,
    <<"H5T_ORDER_BE", 4600>>, <<"H5T_ORDER_ERROR", 4610>>, <<"H5T_ORDER_LE", 4620>>,
    <<"H5T_ORDER_NONE", 4630>>, <<"H5T_ORDER_VAX", 4640>>, <<"H5T_PAD_BACKGROUND", 4650>>,
    <<"H5T_PAD_ERROR", 4660>>, <<"H5T_PAD_ONE", 4670>>, <<"H5T_PAD_ZERO", 4680>>,
    <<"H5T_PERS_DONTCARE", 4690>>, <<"H5T_PERS_HARD", 4700>>, <<"H5T_PERS_SOFT", 4710>>,
    <<"H5T_REFERENCE", 4720>>, <<"H5T_SGN_2", 4730>>, <<"H5T_SGN_ERROR", 4740>>,
    <<"H5T_SGN_NONE", 4750>>, <<"H5T_STD_B16BE", 4760>>, <<"H5T_STD_B16LE", 4770>>,
    <<"H5T_STD_B32BE", 4780>>, <<"H5T_STD_B32LE", 4790>>, <<"H5T_STD_B64BE", 4800>>,
    <<"H5T_STD_B64LE", 4810>>, <<"H5T_STD_B8BE", 4820>>, <<"H5T_STD_B8LE", 4830>>,
    <<"H5T_STD_I16BE", 4840>>, <<"H5T_STD_I16LE", 4850>>, <<"H5T_STD_I32BE", 4860>>,
    <<"H5T_STD_I32LE", 4870>>, <<"H5T_STD_I64BE", 4880>>, <<"H5T_STD_I64LE", 4890>>,
    <<"H5T_STD_I8BE", 4900>>, <<"H5T_STD_I8LE", 4910>>, <<"H5T_STD_REF_DSETREG", 4920>>,
    <<"H5T_STD_REF_OBJ", 4930>>, <<"H5T_STD_U16BE", 4940>>, <<"H5T_STD_U16LE", 4950>>,
    <<"H5T_STD_U32BE", 4960>>, <<"H5T_STD_U32LE", 4970>>, <<"H5T_STD_U64BE", 4980>>,
    <<"H5T_STD_U64LE", 4990>>, <<"H5T_STD_U8BE", 5000>>, <<"H5T_STD_U8LE", 5010>>,
    <<"H5T_STR_ERROR", 5020>>, <<"H5T_STR_NULLPAD", 5030>>, <<"H5T_STR_NULLTERM", 5040>>,
    <<"H5T_STR_RESERVED_10", 5050>>, <<"H5T_STR_RESERVED_11", 5060>>, <<"H5T_STR_RESERVED_12", 5070>>,
    <<"H5T_STR_RESERVED_13", 5080>>, <<"H5T_STR_RESERVED_14", 5090>>, <<"H5T_STR_RESERVED_15", 5100>>,
    <<"H5T_STR_RESERVED_3", 5110>>, <<"H5T_STR_RESERVED_4", 5120>>, <<"H5T_STR_RESERVED_5", 5130>>,
    <<"H5T_STR_RESERVED_6", 5140>>, <<"H5T_STR_RESERVED_7", 5150>>, <<"H5T_STR_RESERVED_8", 5160>>,
    <<"H5T_STR_RESERVED_9", 5170>>, <<"H5T_STR_SPACEPAD", 5180>>, <<"H5T_STRING", 5190>>,
    <<"H5T_TIME", 5200>>, <<"H5T_UNIX_D32BE", 5210>>, <<"H5T_UNIX_D32LE", 5220>>,
    <<"H5T_UNIX_D64BE", 5230>>, <<"H5T_UNIX_D64LE", 5240>>, <<"H5T_VARIABLE", 5245>>,
    <<"H5T_VLEN", 5250>>, <<"H5Z_CB_CONT", 5260>>, <<"H5Z_CB_ERROR", 5270>>,
    <<"H5Z_CB_FAIL", 5280>>, <<"H5Z_CB_NO", 5290>>, <<"H5Z_DISABLE_EDC", 5300>>,
    <<"H5Z_ENABLE_EDC", 5310>>, <<"H5Z_ERROR_EDC", 5320>>, <<"H5Z_FILTER_DEFLATE", 5330>>,
    <<"H5Z_FILTER_ERROR", 5340>>, <<"H5Z_FILTER_FLETCHER32", 5350>>, <<"H5Z_FILTER_MAX", 5360>>,
    <<"H5Z_FILTER_NONE", 5370>>, <<"H5Z_FILTER_RESERVED", 5380>>, <<"H5Z_FILTER_SHUFFLE", 5390>>,
    <<"H5Z_FILTER_SZIP", 5400>>, <<"H5Z_FLAG_DEFMASK", 5410>>, <<"H5Z_FLAG_INVMASK", 5420>>,
    <<"H5Z_FLAG_MANDATORY", 5430>>, <<"H5Z_FLAG_OPTIONAL", 5440>>, <<"H5Z_FLAG_REVERSE", 5450>>,
    <<"H5Z_FLAG_SKIP_EDC", 5460>>, <<"H5Z_MAX_NFILTERS", 5470>>, <<"H5Z_NO_EDC", 5480>>,
    <<"H5Z_FILTER_CONFIG_ENCODE_ENABLED", 5490>>, <<"H5Z_FILTER_CONFIG_DECODE_ENABLED", 5500>>
  >>

(***************************************************************************)
(* h5Constants.h: the #define lines that are commented out.                *)
(***************************************************************************)
JH5DefinesRemoved ==
  <<
    <<"H5E_CANTALLOC", 1430>>, <<"H5E_CANTCHANGE", 1440>>, <<"H5E_CANTRECV", 1680>>,
    <<"H5E_CANTSENDMDATA", 1720>>, <<"H5E_CWG", 1780>>, <<"H5E_FPHDF5", 1890>>,
    <<"H5E_SLINK", 2180>>, <<"H5E_TBBT", 2210>>, <<"H5G_RESERVED_4", 2590>>,
    <<"H5I_NGROUPS", 2780>>, <<"H5I_TEMPBUF", 2800>>, <<"H5P_MOUNT", 2910>>,
    <<"H5P_MOUNT_DEFAULT", 2920>>, <<"H5P_NO_CLASS_DEFAULT", 2940>>, <<"H5R_INTERNAL", 2970>>,
    <<"H5S_COMPLEX", 3020>>, <<"H5T_CSET_RESERVED_1", 3490>>
  >>

(***************************************************************************)
(* h5Constants.c: the live cases of the switch in J2C, in file order.       *)
(***************************************************************************)
SwitchCases ==
  <<
    <<"H5_SZIP_MAX_PIXELS_PER_BLOCK", "H5_SZIP_MAX_PIXELS_PER_BLOCK", "">>, <<"H5_SZIP_NN_OPTION_MASK", "H5_SZIP_NN_OPTION_MASK", "">>,
    <<"H5_SZIP_EC_OPTION_MASK", "H5_SZIP_EC_OPTION_MASK", "">>, <<"H5_SZIP_ALLOW_K13_OPTION_MASK", "H5_SZIP_ALLOW_K13_OPTION_MASK", "">>,
    <<"H5_SZIP_CHIP_OPTION_MASK", "H5_SZIP_CHIP_OPTION_MASK", "">>, <<"H5D_ALLOC_TIME_DEFAULT", "H5D_ALLOC_TIME_DEFAULT", "">>,
    <<"H5D_ALLOC_TIME_EARLY", "H5D_ALLOC_TIME_EARLY", "">>, <<"H5D_ALLOC_TIME_ERROR", "H5D_ALLOC_TIME_ERROR", "">>,
    <<"H5D_ALLOC_TIME_INCR", "H5D_ALLOC_TIME_INCR", "">>, <<"H5D_ALLOC_TIME_LATE", "H5D_ALLOC_TIME_LATE", "">>,
    <<"H5D_CHUNKED", "H5D_CHUNKED", "">>, <<"H5D_COMPACT", "H5D_COMPACT", "">>,
    <<"H5D_CONTIGUOUS", "H5D_CONTIGUOUS", "">>, <<"H5D_FILL_TIME_ALLOC", "H5D_FILL_TIME_ALLOC", "">>,
    <<"H5D_FILL_TIME_ERROR", "H5D_FILL_TIME_ERROR", "">>, <<"H5D_FILL_TIME_NEVER", "H5D_FILL_TIME_NEVER", "">>,
    <<"H5D_FILL_VALUE_DEFAULT", "H5D_FILL_VALUE_DEFAULT", "">>, <<"H5D_FILL_VALUE_ERROR", "H5D_FILL_VALUE_ERROR", "">>,
    <<"H5D_FILL_VALUE_UNDEFINED", "H5D_FILL_VALUE_UNDEFINED", "">>, <<"H5D_FILL_VALUE_USER_DEFINED", "H5D_FILL_VALUE_USER_DEFINED", "">>,
    <<"H5D_LAYOUT_ERROR", "H5D_LAYOUT_ERROR", "">>, <<"H5D_NLAYOUTS", "H5D_NLAYOUTS", "">>,
    <<"H5D_SPACE_STATUS_ALLOCATED", "H5D_SPACE_STATUS_ALLOCATED", "">>, <<"H5D_SPACE_STATUS_ERROR", "H5D_SPACE_STATUS_ERROR", "">>,
    <<"H5D_SPACE_STATUS_NOT_ALLOCATED", "H5D_SPACE_STATUS_NOT_ALLOCATED", "">>, <<"H5D_SPACE_STATUS_PART_ALLOCATED", "H5D_SPACE_STATUS_PART_ALLOCATED", "">>,
    <<"H5E_ALIGNMENT", "H5E_ALIGNMENT", "">>, <<"H5E_ALREADYEXISTS", "H5E_ALREADYEXISTS", "">>,
    <<"H5E_ALREADYINIT", "H5E_ALREADYINIT", "">>, <<"H5E_ARGS", "H5E_ARGS", "">>,
    <<"H5E_ATOM", "H5E_ATOM", "">>, <<"H5E_ATTR", "H5E_ATTR", "">>,
    <<"H5E_BADATOM", "H5E_BADATOM", "">>, <<"H5E_BADFILE", "H5E_BADFILE", "">>,
    <<"H5E_BADGROUP", "H5E_BADGROUP", "">>, <<"H5E_BADMESG", "H5E_BADMESG", "">>,
    <<"H5E_BADRANGE", "H5E_BADRANGE", "">>, <<"H5E_BADSELECT", "H5E_BADSELECT", "">>,
    <<"H5E_BADSIZE", "H5E_BADSIZE", "">>, <<"H5E_BADTYPE", "H5E_BADTYPE", "">>,
    <<"H5E_BADVALUE", "H5E_BADVALUE", "">>, <<"H5E_BTREE", "H5E_BTREE", "">>,
    <<"H5E_CACHE", "H5E_CACHE", "">>, <<"H5E_CALLBACK", "H5E_CALLBACK", "">>,
    <<"H5E_CANAPPLY", "H5E_CANAPPLY", "">>, <<"H5E_CANTCLIP", "H5E_CANTCLIP", "">>,
    <<"H5E_CANTCLOSEFILE", "H5E_CANTCLOSEFILE", "">>, <<"H5E_CANTCONVERT", "H5E_CANTCONVERT", "">>,
    <<"H5E_CANTCOPY", "H5E_CANTCOPY", "">>, <<"H5E_CANTCOUNT", "H5E_CANTCOUNT", "">>,
    <<"H5E_CANTCREATE", "H5E_CANTCREATE", "">>, <<"H5E_CANTDEC", "H5E_CANTDEC", "">>,
    <<"H5E_CANTDECODE", "H5E_CANTDECODE", "">>, <<"H5E_CANTDELETE", "H5E_CANTDELETE", "">>,
    <<"H5E_CANTENCODE", "H5E_CANTENCODE", "">>, <<"H5E_CANTFLUSH", "H5E_CANTFLUSH", "">>,
    <<"H5E_CANTFREE", "H5E_CANTFREE", "">>, <<"H5E_CANTGET", "H5E_CANTGET", "">>,
    <<"H5E_CANTINC", "H5E_CANTINC", "">>, <<"H5E_CANTINIT", "H5E_CANTINIT", "">>,
    <<"H5E_CANTINSERT", "H5E_CANTINSERT", "">>, <<"H5E_CANTLIST", "H5E_CANTLIST", "">>,
    <<"H5E_CANTLOAD", "H5E_CANTLOAD", "">>, <<"H5E_CANTLOCK", "H5E_CANTLOCK", "">>,
    <<"H5E_CANTNEXT", "H5E_CANTNEXT", "">>, <<"H5E_CANTOPENFILE", "H5E_CANTOPENFILE", "">>,
    <<"H5E_CANTOPENOBJ", "H5E_CANTOPENOBJ", "">>, <<"H5E_CANTREGISTER", "H5E_CANTREGISTER", "">>,
    <<"H5E_CANTRELEASE", "H5E_CANTRELEASE", "">>, <<"H5E_CANTSELECT", "H5E_CANTSELECT", "">>,
    <<"H5E_CANTSET", "H5E_CANTSET", "">>, <<"H5E_CANTSPLIT", "H5E_CANTSPLIT", "">>,
    <<"H5E_CANTUNLOCK", "H5E_CANTUNLOCK", "">>, <<"H5E_CLOSEERROR", "H5E_CLOSEERROR", "">>,
    <<"H5E_COMPLEN", "H5E_COMPLEN", "">>, <<"H5E_DATASET", "H5E_DATASET", "">>,
    <<"H5E_DATASPACE", "H5E_DATASPACE", "">>, <<"H5E_DATATYPE", "H5E_DATATYPE", "">>,
    <<"H5E_DUPCLASS", "H5E_DUPCLASS", "">>, <<"H5E_EFL", "H5E_EFL", "">>,
    <<"H5E_EXISTS", "H5E_EXISTS", "">>, <<"H5E_FCNTL", "H5E_FCNTL", "">>,
    <<"H5E_FILE", "H5E_FILE", "">>, <<"H5E_FILEEXISTS", "H5E_FILEEXISTS", "">>,
    <<"H5E_FILEOPEN", "H5E_FILEOPEN", "">>, <<"H5E_FUNC", "H5E_FUNC", "">>,
    <<"H5E_HEAP", "H5E_HEAP", "">>, <<"H5E_INTERNAL", "H5E_INTERNAL", "">>,
    <<"H5E_IO", "H5E_IO", "">>, <<"H5E_LINK", "H5E_LINK", "">>,
    <<"H5E_LINKCOUNT", "H5E_LINKCOUNT", "">>, <<"H5E_MOUNT", "H5E_MOUNT", "">>,
    <<"H5E_MPI", "H5E_MPI", "">>, <<"H5E_MPIERRSTR", "H5E_MPIERRSTR", "">>,
    <<"H5E_NOFILTER", "H5E_NOFILTER", "">>, <<"H5E_NOIDS", "H5E_NOIDS", "">>,
    <<"H5E_NONE_MAJOR", "H5E_NONE_MAJOR", "">>, <<"H5E_NONE_MINOR", "H5E_NONE_MINOR", "">>,
    <<"H5E_NOSPACE", "H5E_NOSPACE", "">>, <<"H5E_NOTCACHED", "H5E_NOTCACHED", "">>,
    <<"H5E_NOTFOUND", "H5E_NOTFOUND", "">>, <<"H5E_NOTHDF5", "H5E_NOTHDF5", "">>,
    <<"H5E_OHDR", "H5E_OHDR", "">>, <<"H5E_OVERFLOW", "H5E_OVERFLOW", "">>,
    <<"H5E_PLINE", "H5E_PLINE", "">>, <<"H5E_PLIST", "H5E_PLIST", "">>,
    <<"H5E_PROTECT", "H5E_PROTECT", "">>, <<"H5E_READERROR", "H5E_READERROR", "">>,
    <<"H5E_REFERENCE", "H5E_REFERENCE", "">>, <<"H5E_RESOURCE", "H5E_RESOURCE", "">>,
    <<"H5E_RS", "H5E_RS", "">>, <<"H5E_SEEKERROR", "H5E_SEEKERROR", "">>,
    <<"H5E_SETLOCAL", "H5E_SETLOCAL", "">>, <<"H5E_STORAGE", "H5E_STORAGE", "">>,
    <<"H5E_SYM", "H5E_SYM", "">>, <<"H5E_TRUNCATED", "H5E_TRUNCATED", "">>,
    <<"H5E_TST", "H5E_TST", "">>, <<"H5E_UNINITIALIZED", "H5E_UNINITIALIZED", "">>,
    <<"H5E_UNSUPPORTED", "H5E_UNSUPPORTED", "">>, <<"H5E_VERSION", "H5E_VERSION", "">>,
    <<"H5E_VFL", "H5E_VFL", "">>, <<"H5E_WALK_DOWNWARD", "H5E_WALK_DOWNWARD", "">>,
    <<"H5E_WALK_UPWARD", "H5E_WALK_UPWARD", "">>, <<"H5E_WRITEERROR", "H5E_WRITEERROR", "">>,
    <<"H5F_ACC_CREAT", "H5F_ACC_CREAT", "">>, <<"H5F_ACC_DEBUG", "H5F_ACC_DEBUG", "">>,
    <<"H5F_ACC_EXCL", "H5F_ACC_EXCL", "">>, <<"H5F_ACC_RDONLY", "H5F_ACC_RDONLY", "">>,
    <<"H5F_ACC_RDWR", "H5F_ACC_RDWR", "">>, <<"H5F_ACC_TRUNC", "H5F_ACC_TRUNC", "">>,
    <<"H5F_CLOSE_DEFAULT", "H5F_CLOSE_DEFAULT", "">>, <<"H5F_CLOSE_SEMI", "H5F_CLOSE_SEMI", "">>,
    <<"H5F_CLOSE_STRONG", "H5F_CLOSE_STRONG", "">>, <<"H5F_CLOSE_WEAK", "H5F_CLOSE_WEAK", "">>,
    <<"H5F_OBJ_ALL", "H5F_OBJ_ALL", "">>, <<"H5F_OBJ_DATASET", "H5F_OBJ_DATASET", "">>,
    <<"H5F_OBJ_DATATYPE", "H5F_OBJ_DATATYPE", "">>, <<"H5F_OBJ_FILE", "H5F_OBJ_FILE", "">>,
    <<"H5F_OBJ_ATTR", "H5F_OBJ_ATTR", "">>, <<"H5F_OBJ_GROUP", "H5F_OBJ_GROUP", "">>,
    <<"H5F_SCOPE_DOWN", "H5F_SCOPE_DOWN", "">>, <<"H5F_SCOPE_GLOBAL", "H5F_SCOPE_GLOBAL", "">>,
    <<"H5F_SCOPE_LOCAL", "H5F_SCOPE_LOCAL", "">>, <<"H5F_UNLIMITED", "H5F_UNLIMITED", "int">>,
    <<"H5F_LIBVER_EARLIEST", "H5F_LIBVER_EARLIEST", "">>, <<"H5F_LIBVER_LATEST", "H5F_LIBVER_LATEST", "">>,
    <<"H5G_DATASET", "H5G_DATASET", "">>, <<"H5G_GROUP", "H5G_GROUP", "">>,
    <<"H5G_LINK", "H5G_LINK", "">>, <<"H5G_LINK_ERROR", "H5G_LINK_ERROR", "">>,
    <<"H5G_LINK_HARD", "H5G_LINK_HARD", "">>, <<"H5G_LINK_SOFT", "H5G_LINK_SOFT", "">>,
    <<"H5G_NLIBTYPES", "H5G_NLIBTYPES", "">>, <<"H5G_NTYPES", "H5G_NTYPES", "">>,
    <<"H5G_NUSERTYPES", "H5G_NUSERTYPES", "">>, <<"H5G_RESERVED_5", "H5G_RESERVED_5", "">>,
    <<"H5G_RESERVED_6", "H5G_RESERVED_6", "">>, <<"H5G_RESERVED_7", "H5G_RESERVED_7", "">>,
    <<"H5G_SAME_LOC", "H5G_SAME_LOC", "">>, <<"H5G_TYPE", "H5G_TYPE", "">>,
    <<"H5G_UNKNOWN", "H5G_UNKNOWN", "">>, <<"H5I_ATTR", "H5I_ATTR", "">>,
    <<"H5I_BADID", "H5I_BADID", "">>, <<"H5I_DATASET", "H5I_DATASET", "">>,
    <<"H5I_DATASPACE", "H5I_DATASPACE", "">>, <<"H5I_DATATYPE", "H5I_DATATYPE", "">>,
    <<"H5I_FILE", "H5I_FILE", "">>, <<"H5I_GENPROP_CLS", "H5I_GENPROP_CLS", "">>,
    <<"H5I_GENPROP_LST", "H5I_GENPROP_LST", "">>, <<"H5I_GROUP", "H5I_GROUP", "">>,
    <<"H5I_INVALID_HID", "H5I_INVALID_HID", "">>, <<"H5I_REFERENCE", "H5I_REFERENCE", "">>,
    <<"H5I_VFL", "H5I_VFL", "">>, <<"H5O_TYPE_UNKNOWN", "H5O_TYPE_UNKNOWN", "">>,
    <<"H5O_TYPE_GROUP", "H5O_TYPE_GROUP", "">>, <<"H5O_TYPE_DATASET", "H5O_TYPE_DATASET", "">>,
    <<"H5O_TYPE_NAMED_DATATYPE", "H5O_TYPE_NAMED_DATATYPE", "">>, <<"H5O_TYPE_NTYPES", "H5O_TYPE_NTYPES", "">>,
    <<"H5L_TYPE_ERROR", "H5L_TYPE_ERROR", "">>, <<"H5L_TYPE_HARD", "H5L_TYPE_HARD", "">>,
    <<"H5L_TYPE_SOFT", "H5L_TYPE_SOFT", "">>, <<"H5L_TYPE_EXTERNAL", "H5L_TYPE_EXTERNAL", "">>,
    <<"H5L_TYPE_MAX", "H5L_TYPE_MAX", "">>, <<"H5P_DATASET_CREATE", "H5P_DATASET_CREATE", "">>,
    <<"H5P_DATASET_CREATE_DEFAULT", "H5P_DATASET_CREATE_DEFAULT", "">>, <<"H5P_DATASET_XFER", "H5P_DATASET_XFER", "">>,
    <<"H5P_DATASET_XFER_DEFAULT", "H5P_DATASET_XFER_DEFAULT", "">>, <<"H5P_FILE_ACCESS", "H5P_FILE_ACCESS", "">>,
    <<"H5P_FILE_ACCESS_DEFAULT", "H5P_FILE_ACCESS_DEFAULT", "">>, <<"H5P_FILE_CREATE", "H5P_FILE_CREATE", "">>,
    <<"H5P_FILE_CREATE_DEFAULT", "H5P_FILE_CREATE_DEFAULT", "">>, <<"H5P_DEFAULT", "H5P_DEFAULT", "">>,
    <<"H5P_NO_CLASS", "H5P_NO_CLASS", "">>, <<"H5P_ROOT", "H5P_ROOT", "">>,
    <<"H5P_OBJECT_CREATE", "H5P_OBJECT_CREATE", "">>, <<"H5P_DATASET_ACCESS", "H5P_DATASET_ACCESS", "">>,
    <<"H5P_DATASET_ACCESS_DEFAULT", "H5P_DATASET_ACCESS_DEFAULT", "">>, <<"H5P_FILE_MOUNT", "H5P_FILE_MOUNT", "">>,
    <<"H5P_FILE_MOUNT_DEFAULT", "H5P_FILE_MOUNT_DEFAULT", "">>, <<"H5P_GROUP_CREATE", "H5P_GROUP_CREATE", "">>,
    <<"H5P_GROUP_CREATE_DEFAULT", "H5P_GROUP_CREATE_DEFAULT", "">>, <<"H5P_GROUP_ACCESS", "H5P_GROUP_ACCESS", "">>,
    <<"H5P_GROUP_ACCESS_DEFAULT", "H5P_GROUP_ACCESS_DEFAULT", "">>, <<"H5P_DATATYPE_CREATE", "H5P_DATATYPE_CREATE", "">>,
    <<"H5P_DATATYPE_CREATE_DEFAULT", "H5P_DATATYPE_CREATE_DEFAULT", "">>, <<"H5P_DATATYPE_ACCESS", "H5P_DATATYPE_ACCESS", "">>,
    <<"H5P_DATATYPE_ACCESS_DEFAULT", "H5P_DATATYPE_ACCESS_DEFAULT", "">>, <<"H5P_STRING_CREATE", "H5P_STRING_CREATE", "">>,
    <<"H5P_ATTRIBUTE_CREATE", "H5P_ATTRIBUTE_CREATE", "">>, <<"H5P_ATTRIBUTE_CREATE_DEFAULT", "H5P_ATTRIBUTE_CREATE_DEFAULT", "">>,
    <<"H5P_OBJECT_COPY", "H5P_OBJECT_COPY", "">>, <<"H5P_OBJECT_COPY_DEFAULT", "H5P_OBJECT_COPY_DEFAULT", "">>,
    <<"H5P_LINK_CREATE", "H5P_LINK_CREATE", "">>, <<"H5P_LINK_CREATE_DEFAULT", "H5P_LINK_CREATE_DEFAULT", "">>,
    <<"H5P_LINK_ACCESS", "H5P_LINK_ACCESS", "">>, <<"H5P_LINK_ACCESS_DEFAULT", "H5P_LINK_ACCESS_DEFAULT", "">>,
    <<"H5R_BADTYPE", "H5R_BADTYPE", "">>, <<"H5R_DATASET_REGION", "H5R_DATASET_REGION", "">>,
    <<"H5R_MAXTYPE", "H5R_MAXTYPE", "">>, <<"H5R_OBJ_REF_BUF_SIZE", "H5R_OBJ_REF_BUF_SIZE", "">>,
    <<"H5R_OBJECT", "H5R_OBJECT", "">>, <<"H5S_ALL", "H5S_ALL", "">>,
    <<"H5S_MAX_RANK", "H5S_MAX_RANK", "">>, <<"H5S_NO_CLASS", "H5S_NO_CLASS", "">>,
    <<"H5S_NULL", "H5S_NULL", "">>, <<"H5S_SCALAR", "H5S_SCALAR", "">>,
    <<"H5S_SEL_ALL", "H5S_SEL_ALL", "">>, <<"H5S_SEL_ERROR", "H5S_SEL_ERROR", "">>,
    <<"H5S_SEL_HYPERSLABS", "H5S_SEL_HYPERSLABS", "">>, <<"H5S_SEL_N", "H5S_SEL_N", "">>,
    <<"H5S_SEL_NONE", "H5S_SEL_NONE", "">>, <<"H5S_SEL_POINTS", "H5S_SEL_POINTS", "">>,
    <<"H5S_SELECT_AND", "H5S_SELECT_AND", "">>, <<"H5S_SELECT_APPEND", "H5S_SELECT_APPEND", "">>,
    <<"H5S_SELECT_INVALID", "H5S_SELECT_INVALID", "">>, <<"H5S_SELECT_NOOP", "H5S_SELECT_NOOP", "">>,
    <<"H5S_SELECT_NOTA", "H5S_SELECT_NOTA", "">>, <<"H5S_SELECT_NOTB", "H5S_SELECT_NOTB", "">>,
    <<"H5S_SELECT_OR", "H5S_SELECT_OR", "">>, <<"H5S_SELECT_PREPEND", "H5S_SELECT_PREPEND", "">>,
    <<"H5S_SELECT_SET", "H5S_SELECT_SET", "">>, <<"H5S_SELECT_XOR", "H5S_SELECT_XOR", "">>,
    <<"H5S_SIMPLE", "H5S_SIMPLE", "">>, <<"H5S_UNLIMITED", "H5S_UNLIMITED", "int">>,
    <<"H5T_ALPHA_B16", "H5T_ALPHA_B16", "">>, <<"H5T_ALPHA_B32", "H5T_ALPHA_B32", "">>,
    <<"H5T_ALPHA_B64", "H5T_ALPHA_B64", "">>, <<"H5T_ALPHA_B8", "H5T_ALPHA_B8", "">>,
    <<"H5T_ALPHA_F32", "H5T_ALPHA_F32", "">>, <<"H5T_ALPHA_F64", "H5T_ALPHA_F64", "">>,
    <<"H5T_ALPHA_I16", "H5T_ALPHA_I16", "">>, <<"H5T_ALPHA_I32", "H5T_ALPHA_I32", "">>,
    <<"H5T_ALPHA_I64", "H5T_ALPHA_I64", "">>, <<"H5T_ALPHA_I8", "H5T_ALPHA_I8", "">>,
    <<"H5T_ALPHA_U16", "H5T_ALPHA_U16", "">>, <<"H5T_ALPHA_U32", "H5T_ALPHA_U32", "">>,
    <<"H5T_ALPHA_U64", "H5T_ALPHA_U64", "">>, <<"H5T_ALPHA_U8", "H5T_ALPHA_U8", "">>,
    <<"H5T_ARRAY", "H5T_ARRAY", "">>, <<"H5T_BITFIELD", "H5T_BITFIELD", "">>,
    <<"H5T_BKG_NO", "H5T_BKG_NO", "">>, <<"H5T_BKG_YES", "H5T_BKG_YES", "">>,
    <<"H5T_C_S1", "H5T_C_S1", "">>, <<"H5T_COMPOUND", "H5T_COMPOUND", "">>,
    <<"H5T_CONV_CONV", "H5T_CONV_CONV", "">>, <<"H5T_CONV_FREE", "H5T_CONV_FREE", "">>,
    <<"H5T_CONV_INIT", "H5T_CONV_INIT", "">>, <<"H5T_CSET_ASCII", "H5T_CSET_ASCII", "">>,
    <<"H5T_CSET_ERROR", "H5T_CSET_ERROR", "">>, <<"H5T_CSET_RESERVED_10", "H5T_CSET_RESERVED_10", "">>,
    <<"H5T_CSET_RESERVED_11", "H5T_CSET_RESERVED_11", "">>, <<"H5T_CSET_RESERVED_12", "H5T_CSET_RESERVED_12", "">>,
    <<"H5T_CSET_RESERVED_13", "H5T_CSET_RESERVED_13", "">>, <<"H5T_CSET_RESERVED_14", "H5T_CSET_RESERVED_14", "">>,
    <<"H5T_CSET_RESERVED_15", "H5T_CSET_RESERVED_15", "">>, <<"H5T_CSET_RESERVED_2", "H5T_CSET_RESERVED_2", "">>,
    <<"H5T_CSET_RESERVED_3", "H5T_CSET_RESERVED_3", "">>, <<"H5T_CSET_RESERVED_4", "H5T_CSET_RESERVED_4", "">>,
    <<"H5T_CSET_RESERVED_5", "H5T_CSET_RESERVED_5", "">>, <<"H5T_CSET_RESERVED_6", "H5T_CSET_RESERVED_6", "">>,
    <<"H5T_CSET_RESERVED_7", "H5T_CSET_RESERVED_7", "">>, <<"H5T_CSET_RESERVED_8", "H5T_CSET_RESERVED_8", "">>,
    <<"H5T_CSET_RESERVED_9", "H5T_CSET_RESERVED_9", "">>, <<"H5T_DIR_ASCEND", "H5T_DIR_ASCEND", "">>,
    <<"H5T_DIR_DEFAULT", "H5T_DIR_DEFAULT", "">>, <<"H5T_DIR_DESCEND", "H5T_DIR_DESCEND", "">>,
    <<"H5T_ENUM", "H5T_ENUM", "">>, <<"H5T_FLOAT", "H5T_FLOAT", "">>,
    <<"H5T_FORTRAN_S1", "H5T_FORTRAN_S1", "">>, <<"H5T_IEEE_F32BE", "H5T_IEEE_F32BE", "">>,
    <<"H5T_IEEE_F32LE", "H5T_IEEE_F32LE", "">>, <<"H5T_IEEE_F64BE", "H5T_IEEE_F64BE", "">>,
    <<"H5T_IEEE_F64LE", "H5T_IEEE_F64LE", "">>, <<"H5T_INTEGER", "H5T_INTEGER", "">>,
    <<"H5T_INTEL_B16", "H5T_INTEL_B16", "">>, <<"H5T_INTEL_B32", "H5T_INTEL_B32", "">>,
    <<"H5T_INTEL_B64", "H5T_INTEL_B64", "">>, <<"H5T_INTEL_B8", "H5T_INTEL_B8", "">>,
    <<"H5T_INTEL_F32", "H5T_INTEL_F32", "">>, <<"H5T_INTEL_F64", "H5T_INTEL_F64", "">>,
    <<"H5T_INTEL_I16", "H5T_INTEL_I16", "">>, <<"H5T_INTEL_I32", "H5T_INTEL_I32", "">>,
    <<"H5T_INTEL_I64", "H5T_INTEL_I64", "">>, <<"H5T_INTEL_I8", "H5T_INTEL_I8", "">>,
    <<"H5T_INTEL_U16", "H5T_INTEL_U16", "">>, <<"H5T_INTEL_U32", "H5T_INTEL_U32", "">>,
    <<"H5T_INTEL_U64", "H5T_INTEL_U64", "">>, <<"H5T_INTEL_U8", "H5T_INTEL_U8", "">>,
    <<"H5T_MIPS_B16", "H5T_MIPS_B16", "">>, <<"H5T_MIPS_B32", "H5T_MIPS_B32", "">>,
    <<"H5T_MIPS_B64", "H5T_MIPS_B64", "">>, <<"H5T_MIPS_B8", "H5T_MIPS_B8", "">>,
    <<"H5T_MIPS_F32", "H5T_MIPS_F32", "">>, <<"H5T_MIPS_F64", "H5T_MIPS_F64", "">>,
    <<"H5T_MIPS_I16", "H5T_MIPS_I16", "">>, <<"H5T_MIPS_I32", "H5T_MIPS_I32", "">>,
    <<"H5T_MIPS_I64", "H5T_MIPS_I64", "">>, <<"H5T_MIPS_I8", "H5T_MIPS_I8", "">>,
    <<"H5T_MIPS_U16", "H5T_MIPS_U16", "">>, <<"H5T_MIPS_U32", "H5T_MIPS_U32", "">>,
    <<"H5T_MIPS_U64", "H5T_MIPS_U64", "">>, <<"H5T_MIPS_U8", "H5T_MIPS_U8", "">>,
    <<"H5T_NATIVE_B16", "H5T_NATIVE_B16", "">>, <<"H5T_NATIVE_B32", "H5T_NATIVE_B32", "">>,
    <<"H5T_NATIVE_B64", "H5T_NATIVE_B64", "">>, <<"H5T_NATIVE_B8", "H5T_NATIVE_B8", "">>,
    <<"H5T_NATIVE_CHAR", "H5T_NATIVE_CHAR", "">>, <<"H5T_NATIVE_DOUBLE", "H5T_NATIVE_DOUBLE", "">>,
    <<"H5T_NATIVE_FLOAT", "H5T_NATIVE_FLOAT", "">>, <<"H5T_NATIVE_HADDR", "H5T_NATIVE_HADDR", "">>,
    <<"H5T_NATIVE_HBOOL", "H5T_NATIVE_HBOOL", "">>, <<"H5T_NATIVE_HERR", "H5T_NATIVE_HERR", "">>,
    <<"H5T_NATIVE_HSIZE", "H5T_NATIVE_HSIZE", "">>, <<"H5T_NATIVE_HSSIZE", "H5T_NATIVE_HSSIZE", "">>,
    <<"H5T_NATIVE_INT", "H5T_NATIVE_INT", "">>, <<"H5T_NATIVE_INT_FAST16", "H5T_NATIVE_INT_FAST16", "">>,
    <<"H5T_NATIVE_INT_FAST32", "H5T_NATIVE_INT_FAST32", "">>, <<"H5T_NATIVE_INT_FAST64", "H5T_NATIVE_INT_FAST64", "">>,
    <<"H5T_NATIVE_INT_FAST8", "H5T_NATIVE_INT_FAST8", "">>, <<"H5T_NATIVE_INT_LEAST16", "H5T_NATIVE_INT_LEAST16", "">>,
    <<"H5T_NATIVE_INT_LEAST32", "H5T_NATIVE_INT_LEAST32", "">>, <<"H5T_NATIVE_INT_LEAST64", "H5T_NATIVE_INT_LEAST64", "">>,
    <<"H5T_NATIVE_INT_LEAST8", "H5T_NATIVE_INT_LEAST8", "">>, <<"H5T_NATIVE_INT16", "H5T_NATIVE_INT16", "">>,
    <<"H5T_NATIVE_INT32", "H5T_NATIVE_INT32", "">>, <<"H5T_NATIVE_INT64", "H5T_NATIVE_INT64", "">>,
    <<"H5T_NATIVE_INT8", "H5T_NATIVE_INT8", "">>, <<"H5T_NATIVE_LDOUBLE", "H5T_NATIVE_LDOUBLE", "">>,
    <<"H5T_NATIVE_LLONG", "H5T_NATIVE_LLONG", "">>, <<"H5T_NATIVE_LONG", "H5T_NATIVE_LONG", "">>,
    <<"H5T_NATIVE_OPAQUE", "H5T_NATIVE_OPAQUE", "">>, <<"H5T_NATIVE_SCHAR", "H5T_NATIVE_SCHAR", "">>,
    <<"H5T_NATIVE_SHORT", "H5T_NATIVE_SHORT", "">>, <<"H5T_NATIVE_UCHAR", "H5T_NATIVE_UCHAR", "">>,
    <<"H5T_NATIVE_UINT", "H5T_NATIVE_UINT", "">>, <<"H5T_NATIVE_UINT_FAST16", "H5T_NATIVE_UINT_FAST16", "">>,
    <<"H5T_NATIVE_UINT_FAST32", "H5T_NATIVE_UINT_FAST32", "">>, <<"H5T_NATIVE_UINT_FAST64", "H5T_NATIVE_UINT_FAST64", "">>,
    <<"H5T_NATIVE_UINT_FAST8", "H5T_NATIVE_UINT_FAST8", "">>, <<"H5T_NATIVE_UINT_LEAST16", "H5T_NATIVE_UINT_LEAST16", "">>,
    <<"H5T_NATIVE_UINT_LEAST32", "H5T_NATIVE_UINT_LEAST32", "">>, <<"H5T_NATIVE_UINT_LEAST64", "H5T_NATIVE_UINT_LEAST64", "">>,
    <<"H5T_NATIVE_UINT_LEAST8", "H5T_NATIVE_UINT_LEAST8", "">>, <<"H5T_NATIVE_UINT16", "H5T_NATIVE_UINT16", "">>,
    <<"H5T_NATIVE_UINT32", "H5T_NATIVE_UINT32", "">>, <<"H5T_NATIVE_UINT64", "H5T_NATIVE_UINT64", "">>,
    <<"H5T_NATIVE_UINT8", "H5T_NATIVE_UINT8", "">>, <<"H5T_NATIVE_ULLONG", "H5T_NATIVE_ULLONG", "">>,
    <<"H5T_NATIVE_ULONG", "H5T_NATIVE_ULONG", "">>, <<"H5T_NATIVE_USHORT", "H5T_NATIVE_USHORT", "">>,
    <<"H5T_NCLASSES", "H5T_NCLASSES", "">>, <<"H5T_NO_CLASS", "H5T_NO_CLASS", "">>,
    <<"H5T_NORM_ERROR", "H5T_NORM_ERROR", "">>, <<"H5T_NORM_IMPLIED", "H5T_NORM_IMPLIED", "">>,
    <<"H5T_NORM_MSBSET", "H5T_NORM_MSBSET", "">>, <<"H5T_NORM_NONE", "H5T_NORM_NONE", "">>,
    <<"H5T_NPAD", "H5T_NPAD", "">>, <<"H5T_NSGN", "H5T_NSGN", "">>,
    <<"H5T_OPAQUE", "H5T_OPAQUE", "">>, <<"H5T_OPAQUE_TAG_MAX", "H5T_OPAQUE_TAG_MAX", "">>,
    <<"H5T_ORDER_BE", "H5T_ORDER_BE", "">>, <<"H5T_ORDER_ERROR", "H5T_ORDER_ERROR", "">>,
    <<"H5T_ORDER_LE", "H5T_ORDER_LE", "">>, <<"H5T_ORDER_NONE", "H5T_ORDER_NONE", "">>,
    <<"H5T_ORDER_VAX", "H5T_ORDER_VAX", "">>, <<"H5T_PAD_BACKGROUND", "H5T_PAD_BACKGROUND", "">>,
    <<"H5T_PAD_ERROR", "H5T_PAD_ERROR", "">>, <<"H5T_PAD_ONE", "H5T_PAD_ONE", "">>,
    <<"H5T_PAD_ZERO", "H5T_PAD_ZERO", "">>, <<"H5T_PERS_DONTCARE", "H5T_PERS_DONTCARE", "">>,
    <<"H5T_PERS_HARD", "H5T_PERS_HARD", "">>, <<"H5T_PERS_SOFT", "H5T_PERS_SOFT", "">>,
    <<"H5T_REFERENCE", "H5T_REFERENCE", "">>, <<"H5T_SGN_2", "H5T_SGN_2", "">>,
    <<"H5T_SGN_ERROR", "H5T_SGN_ERROR", "">>, <<"H5T_SGN_NONE", "H5T_SGN_NONE", "">>,
    <<"H5T_STD_B16BE", "H5T_STD_B16BE", "">>, <<"H5T_STD_B16LE", "H5T_STD_B16LE", "">>,
    <<"H5T_STD_B32BE", "H5T_STD_B32BE", "">>, <<"H5T_STD_B32LE", "H5T_STD_B32LE", "">>,
    <<"H5T_STD_B64BE", "H5T_STD_B64BE", "">>, <<"H5T_STD_B64LE", "H5T_STD_B64LE", "">>,
    <<"H5T_STD_B8BE", "H5T_STD_B8BE", "">>, <<"H5T_STD_B8LE", "H5T_STD_B8LE", "">>,
    <<"H5T_STD_I16BE", "H5T_STD_I16BE", "">>, <<"H5T_STD_I16LE", "H5T_STD_I16LE", "">>,
    <<"H5T_STD_I32BE", "H5T_STD_I32BE", "">>, <<"H5T_STD_I32LE", "H5T_STD_I32LE", "">>,
    <<"H5T_STD_I64BE", "H5T_STD_I64BE", "">>, <<"H5T_STD_I64LE", "H5T_STD_I64LE", "">>,
    <<"H5T_STD_I8BE", "H5T_STD_I8BE", "">>, <<"H5T_STD_I8LE", "H5T_STD_I8LE", "">>,
    <<"H5T_STD_REF_DSETREG", "H5T_STD_REF_DSETREG", "">>, <<"H5T_STD_REF_OBJ", "H5T_STD_REF_OBJ", "">>,
    <<"H5T_STD_U16BE", "H5T_STD_U16BE", "">>, <<"H5T_STD_U16LE", "H5T_STD_U16LE", "">>,
    <<"H5T_STD_U32BE", "H5T_STD_U32BE", "">>, <<"H5T_STD_U32LE", "H5T_STD_U32LE", "">>,
    <<"H5T_STD_U64BE", "H5T_STD_U64BE", "">>, <<"H5T_STD_U64LE", "H5T_STD_U64LE", "">>,
    <<"H5T_STD_U8BE", "H5T_STD_U8BE", "">>, <<"H5T_STD_U8LE", "H5T_STD_U8LE", "">>,
    <<"H5T_STR_ERROR", "H5T_STR_ERROR", "">>, <<"H5T_STR_NULLPAD", "H5T_STR_NULLPAD", "">>,
    <<"H5T_STR_NULLTERM", "H5T_STR_NULLTERM", "">>, <<"H5T_STR_RESERVED_10", "H5T_STR_RESERVED_10", "">>,
    <<"H5T_STR_RESERVED_11", "H5T_STR_RESERVED_11", "">>, <<"H5T_STR_RESERVED_12", "H5T_STR_RESERVED_12", "">>,
    <<"H5T_STR_RESERVED_13", "H5T_STR_RESERVED_13", "">>, <<"H5T_STR_RESERVED_14", "H5T_STR_RESERVED_14", "">>,
    <<"H5T_STR_RESERVED_15", "H5T_STR_RESERVED_15", "">>, <<"H5T_STR_RESERVED_3", "H5T_STR_RESERVED_3", "">>,
    <<"H5T_STR_RESERVED_4", "H5T_STR_RESERVED_4", "">>, <<"H5T_STR_RESERVED_5", "H5T_STR_RESERVED_5", "">>,
    <<"H5T_STR_RESERVED_6", "H5T_STR_RESERVED_6", "">>, <<"H5T_STR_RESERVED_7", "H5T_STR_RESERVED_7", "">>,
    <<"H5T_STR_RESERVED_8", "H5T_STR_RESERVED_8", "">>, <<"H5T_STR_RESERVED_9", "H5T_STR_RESERVED_9", "">>,
    <<"H5T_STR_SPACEPAD", "H5T_STR_SPACEPAD", "">>, <<"H5T_STRING", "H5T_STRING", "">>,
    <<"H5T_TIME", "H5T_TIME", "">>, <<"H5T_UNIX_D32BE", "H5T_UNIX_D32BE", "">>,
    <<"H5T_UNIX_D32LE", "H5T_UNIX_D32LE", "">>, <<"H5T_UNIX_D64BE", "H5T_UNIX_D64BE", "">>,
    <<"H5T_UNIX_D64LE", "H5T_UNIX_D64LE", "">>, <<"H5T_VARIABLE", "H5T_VARIABLE", "">>,
    <<"H5T_VLEN", "H5T_VLEN", "">>, <<"H5Z_CB_CONT", "H5Z_CB_CONT", "">>,
    <<"H5Z_CB_ERROR", "H5Z_CB_ERROR", "">>, <<"H5Z_CB_FAIL", "H5Z_CB_FAIL", "">>,
    <<"H5Z_CB_NO", "H5Z_CB_NO", "">>, <<"H5Z_DISABLE_EDC", "H5Z_DISABLE_EDC", "">>,
    <<"H5Z_ENABLE_EDC", "H5Z_ENABLE_EDC", "">>, <<"H5Z_ERROR_EDC", "H5Z_ERROR_EDC", "">>,
    <<"H5Z_FILTER_DEFLATE", "H5Z_FILTER_DEFLATE", "">>, <<"H5Z_FILTER_ERROR", "H5Z_FILTER_ERROR", "">>,
    <<"H5Z_FILTER_FLETCHER32", "H5Z_FILTER_FLETCHER32", "">>, <<"H5Z_FILTER_MAX", "H5Z_FILTER_MAX", "">>,
    <<"H5Z_FILTER_NONE", "H5Z_FILTER_NONE", "">>, <<"H5Z_FILTER_RESERVED", "H5Z_FILTER_RESERVED", "">>,
    <<"H5Z_FILTER_SHUFFLE", "H5Z_FILTER_SHUFFLE", "">>, <<"H5Z_FILTER_SZIP", "H5Z_FILTER_SZIP", "">>,
    <<"H5Z_FLAG_DEFMASK", "H5Z_FLAG_DEFMASK", "">>, <<"H5Z_FLAG_INVMASK", "H5Z_FLAG_INVMASK", "">>,
    <<"H5Z_FLAG_MANDATORY", "H5Z_FLAG_MANDATORY", "">>, <<"H5Z_FLAG_OPTIONAL", "H5Z_FLAG_OPTIONAL", "">>,
    <<"H5Z_FLAG_REVERSE", "H5Z_FLAG_REVERSE", "">>, <<"H5Z_FLAG_SKIP_EDC", "H5Z_FLAG_SKIP_EDC", "">>,
    <<"H5Z_MAX_NFILTERS", "H5Z_MAX_NFILTERS", "">>, <<"H5Z_NO_EDC", "H5Z_NO_EDC", "">>,
    <<"H5Z_FILTER_CONFIG_ENCODE_ENABLED", "H5Z_FILTER_CONFIG_ENCODE_ENABLED", "">>, <<"H5Z_FILTER_CONFIG_DECODE_ENABLED", "H5Z_FILTER_CONFIG_DECODE_ENABLED", "">>
  >>

(***************************************************************************)
(* h5Constants.c: the cases of the switch that are commented out.          *)
(***************************************************************************)
SwitchCasesRemoved ==
  <<
    <<"H5E_CANTALLOC", "H5E_CANTALLOC", "">>, <<"H5E_CANTCHANGE", "H5E_CANTCHANGE", "">>,
    <<"H5E_CANTMAKETREE", "H5E_CANTMAKETREE", "">>, <<"H5E_CANTRECV", "H5E_CANTRECV", "">>,
    <<"H5E_CANTSENDMDATA", "H5E_CANTSENDMDATA", "">>, <<"H5E_CWG", "H5E_CWG", "">>,
    <<"H5E_FPHDF5", "H5E_FPHDF5", "">>, <<"H5E_SLINK", "H5E_SLINK", "">>,
    <<"H5E_TBBT", "H5E_TBBT", "">>, <<"H5G_RESERVED_4", "H5G_RESERVED_4", "">>,
    <<"H5G_USERTYPE", "H5G_USERTYPE", "">>, <<"H5I_FILE_CLOSING", "H5I_FILE_CLOSING", "">>,
    <<"H5I_NGROUPS", "H5I_NGROUPS", "">>, <<"H5I_TEMPBUF", "H5I_TEMPBUF", "">>,
    <<"H5P_MOUNT", "H5P_MOUNT", "">>, <<"H5P_MOUNT_DEFAULT", "H5P_MOUNT_DEFAULT", "">>,
    <<"H5P_NO_CLASS_DEFAULT", "H5P_NO_CLASS_DEFAULT", "">>, <<"H5R_INTERNAL", "H5R_INTERNAL", "">>,
    <<"H5S_COMPLEX", "H5S_COMPLEX", "">>, <<"H5T_CSET_RESERVED_1", "H5T_CSET_RESERVED_1", "">>
  >>

(***************************************************************************)
(* Bounds and input samples.                                               *)
(***************************************************************************)
\* Largest number of frames a failed native call leaves on the error stack.
MaxDepth == 2

\* Integers handed to J2C that no #define, active or commented out, uses.
UndefinedIds == {-1, 0, 999, 6221}

(***************************************************************************)
(* Managed-runtime (JNI) values.                                           *)
(***************************************************************************)
\* A constructor argument that the constructor does not have.
NoArg == <<>>
\* A null jstring.
NullString == <<"NULL">>
\* A C string: a literal of the source, a message of the native library's
\* tables, or a null pointer.
CStr(s) == <<s>>
NullChars == <<"NULL">>
\* The jstring NewStringUTF makes from the C string c.
Text(c) == <<"text">> \o c

\* No exception pending on the thread.
NoException ==
  [class |-> "none", maj |-> "-", majMsg |-> NoArg, min |-> "-",
   minMsg |-> NoArg, msg |-> NoArg]
\* A null jobject, as NewObjectA returns on failure.
NullObject == [NoException EXCEPT !.class = "NULL"]
\* An exception the runtime itself raises when a JNI function fails.
JvmException(c) == [NoException EXCEPT !.class = c]
\* An instance built through the (Ljava/lang/String;)V constructor.
StringException(c, str) == [NoException EXCEPT !.class = c, !.msg = str]
\* An instance built through the (ILjava/lang/String;ILjava/lang/String;)V
\* constructor.
LibraryException(c, maj, majMsg, min, minMsg) ==
  [class |-> c, maj |-> maj, majMsg |-> majMsg, min |-> min,
   minMsg |-> minMsg, msg |-> NoArg]

\* What the runtime answers to the JNI calls of one raiser call: "ok" or
\* the error the failing function leaves pending.  Throw of a null object is
\* undefined by the JNI specification: it may report success with nothing
\* raised, raise a NullPointerException, report failure, or abort the process.
JniAnswers ==
  [findClass   : {"ok", "java/lang/NoClassDefFoundError"},
   getMethodID : {"ok", "java/lang/NoSuchMethodError"},
   newString1  : {"ok", "java/lang/OutOfMemoryError"},
   newString2  : {"ok", "java/lang/OutOfMemoryError"},
   newObject   : {"ok", "java/lang/OutOfMemoryError"},
   throw       : {"ok", "fail"},
   throwNull   : {"ok", "npe", "fail", "abort"}]

\* The answers that differ in a function a raiser can reach: no raiser
\* calls a JNI function after a failed FindClass or GetMethodID, Throw gets
\* an object only when NewObjectA succeeded and a null only when it failed.
\* The answer of a function that is not reached is written "ok".
JniOutcomes ==
  {j \in JniAnswers :
     /\ (j.findClass # "ok" \/ j.getMethodID # "ok") =>
           /\ j.newString1 = "ok" /\ j.newString2 = "ok" /\ j.newObject = "ok"
           /\ j.throw = "ok" /\ j.throwNull = "ok"
     /\ j.findClass # "ok" => j.getMethodID = "ok"
     /\ j.newObject = "ok" => j.throwNull = "ok"
     /\ j.newObject # "ok" => j.throw = "ok"}

\* The runtime in which every JNI call succeeds.
JniAllOk ==
  [findClass |-> "ok", getMethodID |-> "ok", newString1 |-> "ok",
   newString2 |-> "ok", newObject |-> "ok", throw |-> "ok", throwNull |-> "ok"]

\* JNI Throw(env, ex): sets ex pending and returns 0, or returns a negative
\* value and raises nothing.
Throw(ex, pend, jni) ==
  IF ex = NullObject
  THEN CASE jni.throwNull = "ok"    -> [rval |-> 0, pending |-> pend, abort |-> FALSE]
         [] jni.throwNull = "npe"   -> [rval |-> 0, abort |-> FALSE,
                                        pending |-> JvmException("java/lang/NullPointerException")]
         [] jni.throwNull = "fail"  -> [rval |-> -1, pending |-> pend, abort |-> FALSE]
         [] jni.throwNull = "abort" -> [rval |-> 0, pending |-> pend, abort |-> TRUE]
  ELSE IF jni.throw = "ok"
       THEN [rval |-> 0, pending |-> ex, abort |-> FALSE]
       ELSE [rval |-> -1, pending |-> pend, abort |-> FALSE]

\* What one call of a raiser did: the jboolean it returned ("abort" when the
\* process died inside it), the exception left pending, the JNI and native
\* calls in the order made, and the lines written to stderr.
Outcome(ret, pend, calls, err) ==
  [ret |-> ret, pending |-> pend, calls |-> calls, err |-> err]

\* The end of every raiser: `if (rval < 0) { fprintf(stderr, ...); return
\* JNI_FALSE; } return JNI_TRUE;` with th the result of Throw.
AfterThrow_ignoresRval(th, calls, throwFailed) ==
  IF th.abort
  THEN Outcome("abort", th.pending, calls, <<>>)
  ELSE Outcome("JNI_TRUE", th.pending, calls, <<>>)

AfterThrow(th, calls, throwFailed) ==
  IF th.abort
  THEN Outcome("abort", th.pending, calls, <<>>)
  ELSE IF th.rval < 0
       THEN Outcome("JNI_FALSE", th.pending, calls, <<throwFailed>>)
       ELSE Outcome("JNI_TRUE", th.pending, calls, <<>>)

(***************************************************************************)
(* exceptionImp.c: the raisers with a one-string constructor.  They share  *)
(* one body; they differ in the class name, in the text and in the line    *)
(* printed when Throw fails.                                               *)
(***************************************************************************)
RaiseString(raiser, exception, message, throwFailed, pend, jni) ==
  LET c0 == <<<<"call", raiser>>>>
      c1 == Append(c0, <<"FindClass", exception>>)
      c2 == Append(c1, <<"GetMethodID", "(Ljava/lang/String;)V">>)
      c3 == Append(c2, <<"NewStringUTF", message>>)
      c4 == Append(c3, <<"NewObjectA", exception>>)
      str == IF jni.newString1 = "ok" THEN Text(CStr(message)) ELSE NullString
      p3 == IF jni.newString1 = "ok" THEN pend ELSE JvmException(jni.newString1)
      ex == IF jni.newObject = "ok" THEN StringException(exception, str) ELSE NullObject
      p4 == IF jni.newObject = "ok" THEN p3 ELSE JvmException(jni.newObject)
      c5 == Append(c4, <<"Throw", ex.class>>)
      th == Throw(ex, p4, jni)
  IN IF jni.findClass # "ok"
     THEN Outcome("JNI_FALSE", JvmException(jni.findClass), c1, <<>>)
     ELSE IF jni.getMethodID # "ok"
     THEN Outcome("JNI_FALSE", JvmException(jni.getMethodID), c2, <<>>)
     ELSE AfterThrow(th, c5, throwFailed)

h5illegalConstantError(pend, jni) ==
  RaiseString("h5illegalConstantError", "java/lang/IllegalArgumentException",
              "Illegal java constant",
              "FATAL ERROR:  Unsupported: Throw failed", pend, jni)

h5outOfMemory(functName, pend, jni) ==
  RaiseString("h5outOfMemory", "java/lang/OutOfMemoryError", functName,
              "FATAL ERROR:  OutOfMemoryError: Throw failed", pend, jni)

h5JNIFatalError(functName, pend, jni) ==
  RaiseString("h5JNIFatalError", "java/lang/InternalError", functName,
              "FATAL ERROR:  JNIFatal: Throw failed", pend, jni)

h5nullArgument(functName, pend, jni) ==
  RaiseString("h5nullArgument", "java/lang/NullPointerException", functName,
              "FATAL ERROR:  NullPointer: Throw failed", pend, jni)

h5badArgument(functName, pend, jni) ==
  RaiseString("h5badArgument", "java/lang/IllegalArgumentException", functName,
              "FATAL ERROR:  BadArgument: Throw failed", pend, jni)

\* Variant: the unsupported-operation raiser raises the bad-argument class.
h5unimplemented_badArgumentClass(functName, pend, jni) ==
  RaiseString("h5unimplemented", "java/lang/IllegalArgumentException",
              functName, "FATAL ERROR:  Unsupported: Throw failed", pend, jni)
h5unimplemented(functName, pend, jni) ==
  RaiseString("h5unimplemented", "java/lang/UnsupportedOperationException",
              functName, "FATAL ERROR:  Unsupported: Throw failed", pend, jni)

h5raiseException(exception, message, pend, jni) ==
  RaiseString("h5raiseException", exception, message,
              "FATAL ERROR:  raiseException: Throw failed", pend, jni)

(***************************************************************************)
(* exceptionImp.c: reading the native error stack.                         *)
(***************************************************************************)
\* Variant: the callback reports failure, which ends the walk at the first
\* frame visited.
walk_error_callback_stops(err_desc, err_nums) ==
  [status |-> -1,
   nums |-> IF err_desc # <<>>
            THEN [maj_num |-> err_desc[1].maj_num, min_num |-> err_desc[1].min_num]
            ELSE err_nums]

\* walk_error_callback: copies the codes of a non-null entry into the
\* caller's H5E_num_t and returns 0.
walk_error_callback(err_desc, err_nums) ==
  [status |-> 0,
   nums |-> IF err_desc # <<>>
            THEN [maj_num |-> err_desc[1].maj_num, min_num |-> err_desc[1].min_num]
            ELSE err_nums]

\* H5Ewalk(H5E_DEFAULT, H5E_WALK_DOWNWARD, func, client_data) of the native
\* library: calls func on the frames from the top of the stack (the API
\* function, pushed last) down to frame 1 (the innermost function, pushed
\* first), and stops as soon as func returns a negative status.  i is the
\* frame to visit next.
RECURSIVE H5Ewalk(_, _, _)
H5Ewalk(stack, i, err_nums) ==
  IF i = 0
  THEN err_nums
  ELSE LET r == walk_error_callback(<<stack[i]>>, err_nums)
       IN IF r.status < 0 THEN r.nums ELSE H5Ewalk(stack, i - 1, r.nums)

\* err_nums is a local H5E_num_t that is not initialised: uninit is what the
\* memory held.
getMajorErrorNumber(stack, uninit) == H5Ewalk(stack, Len(stack), uninit).maj_num

\* Variant: the minor reader returns the major field.
getMinorErrorNumber_majField(stack, uninit) == H5Ewalk(stack, Len(stack), uninit).maj_num

getMinorErrorNumber(stack, uninit) == H5Ewalk(stack, Len(stack), uninit).min_num

\* The frames on which H5Ewalk calls the callback, in the order of the calls.
RECURSIVE WalkVisits(_, _, _)
WalkVisits(stack, i, err_nums) ==
  IF i = 0
  THEN <<>>
  ELSE LET r == walk_error_callback(<<stack[i]>>, err_nums)
       IN <<stack[i]>> \o
          (IF r.status < 0 THEN <<>> ELSE WalkVisits(stack, i - 1, r.nums))

\* The JNI method HDF5LibraryException.getMajorErrorNumber: its own copy of
\* the walk, with its own uninitialised err_nums.
JNI_getMajorErrorNumber(stack, uninit) ==
  [ret |-> H5Ewalk(stack, Len(stack), uninit).maj_num,
   calls |-> << <<"H5Ewalk", "H5E_WALK_DOWNWARD">> >>]

\* The JNI method HDF5LibraryException.getMinorErrorNumber: returns what
\* getMinorErrorNumber() returns.
JNI_getMinorErrorNumber(stack, uninit) ==
  [ret |-> getMinorErrorNumber(stack, uninit),
   calls |-> << <<"call", "getMinorErrorNumber">>, <<"H5Ewalk", "H5E_WALK_DOWNWARD">> >>]

(***************************************************************************)
(* exceptionImp.c: H5error_off and printStackTrace0.                       *)
(***************************************************************************)
\* The automatic error handler of the default error stack: the native
\* library's default prints the stack to stderr when an API function fails;
\* NULL prints nothing.
DefaultHandler == "H5Eprint"
NoHandler == "NULL"

\* H5Eset_auto(H5E_DEFAULT, func, client_data) of the native library: on
\* success func is the handler from then on.
H5Eset_auto(handler, func, answer) ==
  [status |-> answer, handler |-> IF answer = "SUCCEED" THEN func ELSE handler]

\* Variant: the default handler is installed instead of none.
H5error_1off_installsDefault(handler, answer) ==
  LET r == H5Eset_auto(handler, DefaultHandler, answer)
  IN [ret |-> r.status, handler |-> r.handler,
      calls |-> << <<"H5Eset_auto", "H5E_DEFAULT", DefaultHandler, "NULL">> >>]

\* Java_ncsa_hdf_hdf5lib_H5_H5error_1off: returns what H5Eset_auto returns.
H5error_1off(handler, answer) ==
  LET r == H5Eset_auto(handler, NoHandler, answer)
  IN [ret |-> r.status, handler |-> r.handler,
      calls |-> << <<"H5Eset_auto", "H5E_DEFAULT", NoHandler, "NULL">> >>]

\* C streams: stderr, a FILE opened on a path, and the null FILE pointer.
Stderr == <<"stderr", "">>
FileStream(path) == <<"FILE", path>>
NullStream == <<"NULL", "">>

\* H5Eprint(H5E_DEFAULT, stream) of the native library: the stream the stack
\* is printed to; a null stream stands for stderr.
H5Eprint(stream) == IF stream = NullStream THEN Stderr ELSE stream

\* What the runtime and the C library answer to the calls of one
\* printStackTrace0 call: GetStringUTFChars ("ok" or the error it leaves
\* pending with a NULL result), fopen on a path ("ok" or "NULL"), and the
\* two calls that receive the null pointer when GetStringUTFChars failed.
\* fopen(NULL, ...) is undefined: it may return NULL or end the process;
\* ReleaseStringUTFChars with null characters likewise may do nothing or end
\* the process.
NoIo == [getChars |-> "ok", fopen |-> "ok", fopenNull |-> "NULL", releaseNull |-> "ok"]
IoAnswers ==
  [getChars : {"ok", "java/lang/OutOfMemoryError"}, fopen : {"ok", "NULL"},
   fopenNull : {"NULL", "abort"}, releaseNull : {"ok", "abort"}]
\* The answers, those of calls that are not reached fixed.
IoOutcomes ==
  {io \in IoAnswers :
     /\ io.getChars = "ok" => io.fopenNull = "NULL" /\ io.releaseNull = "ok"
     /\ io.getChars # "ok" => io.fopen = "ok"
     /\ io.fopenNull = "abort" => io.releaseNull = "ok"}

\* Variant: the file is truncated when it is opened.
DumpFileMode_truncate == "w"

\* The mode printStackTrace0 opens the file in.
DumpFileMode == "a+"

\* Variant: the function returns as soon as the file cannot be opened.
printStackTrace0_returnsEarly(file_name, pend, io) ==
  IF file_name = NullString
  THEN [ret |-> "void", pending |-> pend, open |-> {}, held |-> {},
        calls |-> << <<"H5Eprint">> \o Stderr >>]
  ELSE LET path == file_name[1]
           file == IF io.getChars = "ok" THEN CStr(path) ELSE NullChars
           p1 == IF io.getChars = "ok" THEN pend ELSE JvmException(io.getChars)
           held1 == IF file # NullChars THEN {path} ELSE {}
           c1 == << <<"GetStringUTFChars", path>> >>
           c2 == Append(c1, <<"fopen">> \o file \o <<DumpFileMode>>)
           stream == IF file # NullChars /\ io.fopen = "ok"
                     THEN FileStream(path) ELSE NullStream
           open2 == IF stream # NullStream THEN {path} ELSE {}
           c3 == Append(c2, <<"H5Eprint">> \o stream)
           c4 == Append(c3, <<"ReleaseStringUTFChars", path>> \o file)
           c5 == Append(c4, <<"fclose">> \o stream)
       IN IF file = NullChars /\ io.fopenNull = "abort"
          THEN [ret |-> "abort", pending |-> p1, open |-> {}, held |-> held1,
                calls |-> c2]
          ELSE IF stream = NullStream
          THEN [ret |-> "void", pending |-> p1, open |-> open2, held |-> held1,
                calls |-> c2]
          ELSE [ret |-> "void", pending |-> p1, open |-> open2 \ {path},
                held |-> held1 \ {path}, calls |-> c5]

\* Java_ncsa_hdf_hdf5lib_exceptions_HDF5LibraryException_printStackTrace0.
\* open and held are the paths whose FILE is still open and whose characters
\* are still held when the function ends.
printStackTrace0(file_name, pend, io) ==
  IF file_name = NullString
  THEN [ret |-> "void", pending |-> pend, open |-> {}, held |-> {},
        calls |-> << <<"H5Eprint">> \o Stderr >>]
  ELSE LET path == file_name[1]
           file == IF io.getChars = "ok" THEN CStr(path) ELSE NullChars
           p1 == IF io.getChars = "ok" THEN pend ELSE JvmException(io.getChars)
           held1 == IF file # NullChars THEN {path} ELSE {}
           c1 == << <<"GetStringUTFChars", path>> >>
           c2 == Append(c1, <<"fopen">> \o file \o <<DumpFileMode>>)
           stream == IF file # NullChars /\ io.fopen = "ok"
                     THEN FileStream(path) ELSE NullStream
           open2 == IF stream # NullStream THEN {path} ELSE {}
           c3 == Append(c2, <<"H5Eprint">> \o stream)
           c4 == Append(c3, <<"ReleaseStringUTFChars", path>> \o file)
           held4 == held1 \ {path}
           c5 == IF stream # NullStream THEN Append(c4, <<"fclose">> \o stream) ELSE c4
           open5 == IF stream # NullStream THEN open2 \ {path} ELSE open2
       IN IF file = NullChars /\ io.fopenNull = "abort"
          THEN [ret |-> "abort", pending |-> p1, open |-> {}, held |-> held1,
                calls |-> c2]
          ELSE IF file = NullChars /\ io.releaseNull = "abort"
          THEN [ret |-> "abort", pending |-> p1, open |-> open2, held |-> held1,
                calls |-> c4]
          ELSE [ret |-> "void", pending |-> p1, open |-> open5, held |-> held4,
                calls |-> c5]

\* Variant: the second check compares with H5E_ARGS again.
MajorChecks_repeatsArgs ==
  << <<"H5E_ARGS",      "ncsa/hdf/hdf5lib/exceptions/HDF5FunctionArgumentException">>,
     <<"H5E_ARGS",      "ncsa/hdf/hdf5lib/exceptions/HDF5ResourceUnavailableException">>,
     <<"H5E_INTERNAL",  "ncsa/hdf/hdf5lib/exceptions/HDF5InternalErrorException">>,
     <<"H5E_FILE",      "ncsa/hdf/hdf5lib/exceptions/HDF5FileInterfaceException">>,
     <<"H5E_IO",        "ncsa/hdf/hdf5lib/exceptions/HDF5LowLevelIOException">>,
     <<"H5E_FUNC",      "ncsa/hdf/hdf5lib/exceptions/HDF5FunctionEntryExitException">>,
     <<"H5E_ATOM",      "ncsa/hdf/hdf5lib/exceptions/HDF5AtomException">>,
     <<"H5E_CACHE",     "ncsa/hdf/hdf5lib/exceptions/HDF5MetaDataCacheException">>,
     <<"H5E_BTREE",     "ncsa/hdf/hdf5lib/exceptions/HDF5BtreeException">>,
     <<"H5E_SYM",       "ncsa/hdf/hdf5lib/exceptions/HDF5SymbolTableException">>,
     <<"H5E_HEAP",      "ncsa/hdf/hdf5lib/exceptions/HDF5HeapException">>,
     <<"H5E_OHDR",      "ncsa/hdf/hdf5lib/exceptions/HDF5ObjectHeaderException">>,
     <<"H5E_DATATYPE",  "ncsa/hdf/hdf5lib/exceptions/HDF5DatatypeInterfaceException">>,
     <<"H5E_DATASPACE", "ncsa/hdf/hdf5lib/exceptions/HDF5DataspaceInterfaceException">>,
     <<"H5E_DATASET",   "ncsa/hdf/hdf5lib/exceptions/HDF5DatasetInterfaceException">>,
     <<"H5E_STORAGE",   "ncsa/hdf/hdf5lib/exceptions/HDF5DataStorageException">>,
     <<"H5E_PLIST",     "ncsa/hdf/hdf5lib/exceptions/HDF5PropertyListInterfaceException">>,
     <<"H5E_ATTR",      "ncsa/hdf/hdf5lib/exceptions/HDF5AttributeException">>,
     <<"H5E_PLINE",     "ncsa/hdf/hdf5lib/exceptions/HDF5DataFiltersException">>,
     <<"H5E_EFL",       "ncsa/hdf/hdf5lib/exceptions/HDF5ExternalFileListException">>,
     <<"H5E_REFERENCE", "ncsa/hdf/hdf5lib/exceptions/HDF5ReferenceException">> >>

\* Variant: the second check returns the class of the first.
MajorChecks_sharedClass ==
  << <<"H5E_ARGS",      "ncsa/hdf/hdf5lib/exceptions/HDF5FunctionArgumentException">>,
     <<"H5E_RESOURCE",  "ncsa/hdf/hdf5lib/exceptions/HDF5FunctionArgumentException">>,
     <<"H5E_INTERNAL",  "ncsa/hdf/hdf5lib/exceptions/HDF5InternalErrorException">>,
     <<"H5E_FILE",      "ncsa/hdf/hdf5lib/exceptions/HDF5FileInterfaceException">>,
     <<"H5E_IO",        "ncsa/hdf/hdf5lib/exceptions/HDF5LowLevelIOException">>,
     <<"H5E_FUNC",      "ncsa/hdf/hdf5lib/exceptions/HDF5FunctionEntryExitException">>,
     <<"H5E_ATOM",      "ncsa/hdf/hdf5lib/exceptions/HDF5AtomException">>,
     <<"H5E_CACHE",     "ncsa/hdf/hdf5lib/exceptions/HDF5MetaDataCacheException">>,
     <<"H5E_BTREE",     "ncsa/hdf/hdf5lib/exceptions/HDF5BtreeException">>,
     <<"H5E_SYM",       "ncsa/hdf/hdf5lib/exceptions/HDF5SymbolTableException">>,
     <<"H5E_HEAP",      "ncsa/hdf/hdf5lib/exceptions/HDF5HeapException">>,
     <<"H5E_OHDR",      "ncsa/hdf/hdf5lib/exceptions/HDF5ObjectHeaderException">>,
     <<"H5E_DATATYPE",  "ncsa/hdf/hdf5lib/exceptions/HDF5DatatypeInterfaceException">>,
     <<"H5E_DATASPACE", "ncsa/hdf/hdf5lib/exceptions/HDF5DataspaceInterfaceException">>,
     <<"H5E_DATASET",   "ncsa/hdf/hdf5lib/exceptions/HDF5DatasetInterfaceException">>,
     <<"H5E_STORAGE",   "ncsa/hdf/hdf5lib/exceptions/HDF5DataStorageException">>,
     <<"H5E_PLIST",     "ncsa/hdf/hdf5lib/exceptions/HDF5PropertyListInterfaceException">>,
     <<"H5E_ATTR",      "ncsa/hdf/hdf5lib/exceptions/HDF5AttributeException">>,
     <<"H5E_PLINE",     "ncsa/hdf/hdf5lib/exceptions/HDF5DataFiltersException">>,
     <<"H5E_EFL",       "ncsa/hdf/hdf5lib/exceptions/HDF5ExternalFileListException">>,
     <<"H5E_REFERENCE", "ncsa/hdf/hdf5lib/exceptions/HDF5ReferenceException">> >>

(***************************************************************************)
(* exceptionImp.c: defineHDF5LibraryException, the chain of equality       *)
(* checks in the order written.  Major codes are compared by the name of   *)
(* the native constant.                                                    *)
(***************************************************************************)
MajorChecks ==
  << <<"H5E_ARGS",      "ncsa/hdf/hdf5lib/exceptions/HDF5FunctionArgumentException">>,
     <<"H5E_RESOURCE",  "ncsa/hdf/hdf5lib/exceptions/HDF5ResourceUnavailableException">>,
     <<"H5E_INTERNAL",  "ncsa/hdf/hdf5lib/exceptions/HDF5InternalErrorException">>,
     <<"H5E_FILE",      "ncsa/hdf/hdf5lib/exceptions/HDF5FileInterfaceException">>,
     <<"H5E_IO",        "ncsa/hdf/hdf5lib/exceptions/HDF5LowLevelIOException">>,
     <<"H5E_FUNC",      "ncsa/hdf/hdf5lib/exceptions/HDF5FunctionEntryExitException">>,
     <<"H5E_ATOM",      "ncsa/hdf/hdf5lib/exceptions/HDF5AtomException">>,
     <<"H5E_CACHE",     "ncsa/hdf/hdf5lib/exceptions/HDF5MetaDataCacheException">>,
     <<"H5E_BTREE",     "ncsa/hdf/hdf5lib/exceptions/HDF5BtreeException">>,
     <<"H5E_SYM",       "ncsa/hdf/hdf5lib/exceptions/HDF5SymbolTableException">>,
     <<"H5E_HEAP",      "ncsa/hdf/hdf5lib/exceptions/HDF5HeapException">>,
     <<"H5E_OHDR",      "ncsa/hdf/hdf5lib/exceptions/HDF5ObjectHeaderException">>,
     <<"H5E_DATATYPE",  "ncsa/hdf/hdf5lib/exceptions/HDF5DatatypeInterfaceException">>,
     <<"H5E_DATASPACE", "ncsa/hdf/hdf5lib/exceptions/HDF5DataspaceInterfaceException">>,
     <<"H5E_DATASET",   "ncsa/hdf/hdf5lib/exceptions/HDF5DatasetInterfaceException">>,
     <<"H5E_STORAGE",   "ncsa/hdf/hdf5lib/exceptions/HDF5DataStorageException">>,
     <<"H5E_PLIST",     "ncsa/hdf/hdf5lib/exceptions/HDF5PropertyListInterfaceException">>,
     <<"H5E_ATTR",      "ncsa/hdf/hdf5lib/exceptions/HDF5AttributeException">>,
     <<"H5E_PLINE",     "ncsa/hdf/hdf5lib/exceptions/HDF5DataFiltersException">>,
     <<"H5E_EFL",       "ncsa/hdf/hdf5lib/exceptions/HDF5ExternalFileListException">>,
     <<"H5E_REFERENCE", "ncsa/hdf/hdf5lib/exceptions/HDF5ReferenceException">> >>

\* The class name of the final else.
GenericLibraryException == "ncsa/hdf/hdf5lib/exceptions/HDF5LibraryException"

\* Variant: the chain has no final else; a code that matches no check gets
\* the class of the last check.
RECURSIVE defineFrom_noElse(_, _)
defineFrom_noElse(i, maj_num) ==
  IF i >= Len(MajorChecks) \/ maj_num = MajorChecks[i][1]
  THEN MajorChecks[i][2]
  ELSE defineFrom_noElse(i + 1, maj_num)

\* The checks from the i-th on.
RECURSIVE defineFrom(_, _)
defineFrom(i, maj_num) ==
  IF i > Len(MajorChecks)
  THEN GenericLibraryException
  ELSE IF maj_num = MajorChecks[i][1]
       THEN MajorChecks[i][2]
       ELSE defineFrom(i + 1, maj_num)

defineHDF5LibraryException(maj_num) == defineFrom(1, maj_num)

(***************************************************************************)
(* The native library's message tables.                                    *)
(***************************************************************************)
\* The major categories the chain compares against.
RecognizedMajors == {MajorChecks[i][1] : i \in DOMAIN MajorChecks}
\* Major codes of the native library that the chain does not compare against.
OtherMajors == {"H5E_VFL", "H5E_NONE_MAJOR"}
MajorCodes == RecognizedMajors \cup OtherMajors
\* Minor codes a frame may carry.
MinorCodes == {"H5E_BADTYPE", "H5E_CANTOPENFILE"}
\* An integer that is no code of the library, as uninitialised memory may hold.
Garbage == "garbage"

\* H5Eget_major / H5Eget_minor: the message of a code.  For an integer that
\* is no code, the library returns a fixed text or a null pointer, depending
\* on its version: badCode is that answer.
H5Eget_major(maj_num, badCode) ==
  IF maj_num \in MajorCodes THEN <<"major message", maj_num>> ELSE badCode

H5Eget_minor(min_num, badCode) ==
  IF min_num \in MinorCodes THEN <<"minor message", min_num>> ELSE badCode

\* JNI NewStringUTF(env, chars): a new jstring, or NULL with an error
\* pending; NULL for a null chars.
NewStringUTF(chars, answer) ==
  IF chars = NullChars \/ answer # "ok" THEN NullString ELSE Text(chars)

(***************************************************************************)
(* exceptionImp.c: h5libraryError.  mem is what the environment supplies:  *)
(* the contents of the two uninitialised H5E_num_t locals and the          *)
(* library's answer for an integer that is no code.                        *)
(***************************************************************************)
h5libraryError(stack, pend, jni, mem) ==
  LET maj_num == getMajorErrorNumber(stack, mem.first)
      maj_msg == H5Eget_major(maj_num, mem.badCode)
      exception == defineHDF5LibraryException(maj_num)
      c1 == << <<"call", "h5libraryError">>, <<"H5Ewalk", "H5E_WALK_DOWNWARD">>,
               <<"H5Eget_major", maj_num>>, <<"FindClass", exception>> >>
      c2 == Append(c1, <<"GetMethodID", "(ILjava/lang/String;ILjava/lang/String;)V">>)
      min_num == getMinorErrorNumber(stack, mem.second)
      min_msg == H5Eget_minor(min_num, mem.badCode)
      maj_msg_str == NewStringUTF(maj_msg, jni.newString1)
      min_msg_str == NewStringUTF(min_msg, jni.newString2)
      c3 == c2 \o << <<"H5Ewalk", "H5E_WALK_DOWNWARD">>, <<"H5Eget_minor", min_num>>,
                     <<"NewStringUTF", "maj_msg">>, <<"NewStringUTF", "min_msg">> >>
      p3 == IF maj_msg # NullChars /\ jni.newString1 # "ok"
            THEN JvmException(jni.newString1)
            ELSE IF min_msg # NullChars /\ jni.newString2 # "ok"
                 THEN JvmException(jni.newString2)
                 ELSE pend
      c4 == Append(c3, <<"NewObjectA", exception>>)
      ex == IF jni.newObject = "ok"
            THEN LibraryException(exception, maj_num, maj_msg_str, min_num, min_msg_str)
            ELSE NullObject
      p4 == IF jni.newObject = "ok" THEN p3 ELSE JvmException(jni.newObject)
      c5 == Append(c4, <<"Throw", ex.class>>)
      th == Throw(ex, p4, jni)
  IN IF jni.findClass # "ok"
     THEN Outcome("JNI_FALSE", JvmException(jni.findClass), c1, <<>>)
     ELSE IF jni.getMethodID # "ok"
     THEN Outcome("JNI_FALSE", JvmException(jni.getMethodID), c2,
                  <<"FATAL ERROR:  h5libraryError: Cannot find constructor">>)
     ELSE IF maj_msg_str = NullString \/ min_msg_str = NullString
     THEN Outcome("JNI_FALSE", p3, c3,
                  <<"FATAL ERROR: h5libraryError: Out of Memory">>)
     ELSE AfterThrow(th, c5, "FATAL ERROR:  h5libraryError: Throw failed")

(***************************************************************************)
(* h5Constants.c: Java_ncsa_hdf_hdf5lib_H5_J2C.                            *)
(***************************************************************************)
\* The integers of the active #define lines, and of the commented-out ones.
DefinedIds == {JH5Defines[i][2] : i \in DOMAIN JH5Defines}
RemovedDefineIds == {JH5DefinesRemoved[i][2] : i \in DOMAIN JH5DefinesRemoved}

\* Variant: JH5E_ATOM is defined with the integer of JH5E_ARGS.
JH5_collides(n) ==
  JH5Defines[CHOOSE i \in DOMAIN JH5Defines :
               JH5Defines[i][1] = (IF n = "H5E_ATOM" THEN "H5E_ARGS" ELSE n)][2]
\* Macro expansion of the identifier J<n> by the preprocessor.
JH5(n) == JH5Defines[CHOOSE i \in DOMAIN JH5Defines : JH5Defines[i][1] = n][2]

\* The integer a commented-out case label stood for: its macro, from the
\* active #define when there is one, else from the commented-out #define.
JH5Removed(n) ==
  IF \E i \in DOMAIN JH5Defines : JH5Defines[i][1] = n
  THEN JH5(n)
  ELSE JH5DefinesRemoved[CHOOSE i \in DOMAIN JH5DefinesRemoved :
                           JH5DefinesRemoved[i][1] = n][2]

\* The case labels of the switch after macro expansion.
CaseLabel == [i \in DOMAIN SwitchCases |-> JH5(SwitchCases[i][1])]
LiveIds == {CaseLabel[i] : i \in DOMAIN SwitchCases}
\* The switch's jump table: the row a live integer selects.
CaseOf == [id \in LiveIds |-> CHOOSE i \in DOMAIN SwitchCases : CaseLabel[i] = id]
\* The integers of the commented-out cases.
RemovedCaseIds == {JH5Removed(SwitchCasesRemoved[i][1]) : i \in DOMAIN SwitchCasesRemoved}

\* A jint J2C returns: the native constant `const` (converted by `cast`), or
\* the literal `lit` when const = "".
NativeValue(const, cast) == [const |-> const, cast |-> cast, lit |-> 0]
Literal(n) == [const |-> "", cast |-> "", lit |-> n]
\* No value: the call did not return.
NoValue == [const |-> "", cast |-> "none", lit |-> 0]

\* Variant: the case of JH5E_ARGS returns the constant of another case.
J2C_wrongConstant(java_constant, pend, jni) ==
  IF java_constant \in LiveIds
  THEN LET row == SwitchCases[CaseOf[java_constant]]
       IN [val |-> IF row[1] = "H5E_ARGS" THEN NativeValue("H5E_ATOM", "")
                   ELSE NativeValue(row[2], row[3]),
           ret |-> "-", pending |-> pend, calls |-> <<>>, err |-> <<>>]
  ELSE LET r == h5illegalConstantError(pend, jni)
       IN [val |-> IF r.ret = "abort" THEN NoValue ELSE Literal(-1),
           ret |-> r.ret, pending |-> r.pending, calls |-> r.calls, err |-> r.err]

\* Variant: the default branch returns -1 without calling the raiser.
J2C_silentDefault(java_constant, pend, jni) ==
  IF java_constant \in LiveIds
  THEN LET row == SwitchCases[CaseOf[java_constant]]
       IN [val |-> NativeValue(row[2], row[3]), ret |-> "-", pending |-> pend,
           calls |-> <<>>, err |-> <<>>]
  ELSE [val |-> Literal(-1), ret |-> "-", pending |-> pend, calls |-> <<>>,
        err |-> <<>>]

\* Variant: the commented-out case of JH5E_CANTMAKETREE is live.
J2C_retiredCaseLive(java_constant, pend, jni) ==
  IF java_constant \in LiveIds
  THEN LET row == SwitchCases[CaseOf[java_constant]]
       IN [val |-> NativeValue(row[2], row[3]), ret |-> "-", pending |-> pend,
           calls |-> <<>>, err |-> <<>>]
  ELSE IF java_constant = JH5("H5E_CANTMAKETREE")
  THEN [val |-> NativeValue("H5E_CANTMAKETREE", ""), ret |-> "-", pending |-> pend,
        calls |-> <<>>, err |-> <<>>]
  ELSE LET r == h5illegalConstantError(pend, jni)
       IN [val |-> IF r.ret = "abort" THEN NoValue ELSE Literal(-1),
           ret |-> r.ret, pending |-> r.pending, calls |-> r.calls, err |-> r.err]

Java_ncsa_hdf_hdf5lib_H5_J2C(java_constant, pend, jni) ==
  IF java_constant \in LiveIds
  THEN LET row == SwitchCases[CaseOf[java_constant]]
       IN [val |-> NativeValue(row[2], row[3]), ret |-> "-", pending |-> pend,
           calls |-> <<>>, err |-> <<>>]
  ELSE LET r == h5illegalConstantError(pend, jni)
       IN [val |-> IF r.ret = "abort" THEN NoValue ELSE Literal(-1),
           ret |-> r.ret, pending |-> r.pending, calls |-> r.calls, err |-> r.err]

\* An unsigned 64-bit native value (hsize_t) is written as its four 16-bit
\* limbs, most significant first; a 32-bit hsize_t has the upper two zero.
Limb == 2^16
AllOnes64 == <<Limb - 1, Limb - 1, Limb - 1, Limb - 1>>
AllOnes32 == <<0, 0, Limb - 1, Limb - 1>>
NoNative == <<0, 0, 0, 0>>

\* Variant: a value above INT_MAX is clamped to INT_MAX.
CastInt_clamps(v) ==
  IF v[1] # 0 \/ v[2] # 0 \/ v[3] >= Limb \div 2
  THEN (Limb \div 2 - 1) * Limb + (Limb - 1)
  ELSE v[3] * Limb + v[4]

\* The conversion (int)v of the compilers the library is built with: the
\* low 32 bits of v read as a two's-complement number.
CastInt(v) ==
  IF v[3] >= Limb \div 2
  THEN (v[3] - Limb) * Limb + v[4]
  ELSE v[3] * Limb + v[4]

\* The jint of a returned native constant whose case converts it with
\* (int), native being the constant's value in the native library's header;
\* the other constants stay named.
Convert(val, native) ==
  IF val.cast = "int" THEN [val EXCEPT !.lit = CastInt(native)] ELSE val

(***************************************************************************)
(* State.                                                                  *)
(***************************************************************************)
VARIABLES
  estack,      \* the native library's error stack of the thread; estack[1]
               \* is the innermost frame (pushed first)
  pending,     \* the managed exception pending on the thread
  call,        \* the handler call just made, "idle" in managed code
  autoHandler, \* the automatic error handler of the default error stack
  autoPrinted, \* the last failing native call printed the stack to stderr
  openStreams, \* paths of the FILEs printStackTrace0 opened and not closed
  heldChars,   \* paths whose UTF characters were obtained and not released
  thr,         \* with several threads: what each thread is doing
  cells        \* with several threads: the memory of parameters and locals

vars == <<estack, pending, call, autoHandler, autoPrinted, openStreams, heldChars,
          thr, cells>>

\* The variables of one thread's calls made one at a time, and those of
\* several threads running at once.
seqVars == <<estack, pending, call, autoHandler, autoPrinted, openStreams, heldChars>>
threadVars == <<thr, cells>>

\* The environment of a call that reads no uninitialised memory.
NoMem ==
  [first |-> [maj_num |-> Garbage, min_num |-> Garbage],
   second |-> [maj_num |-> Garbage, min_num |-> Garbage],
   badCode |-> NullChars]

Idle ==
  [op |-> "idle", arg |-> <<>>, jni |-> JniAllOk, io |-> NoIo, mem |-> NoMem,
   native |-> NoNative, ret |-> "-", val |-> NoValue, calls |-> <<>>,
   err |-> <<>>]

\* The record of a call of the raiser op with outcome r.
Raised(op, arg, jni, mem, r) ==
  [op |-> op, arg |-> arg, jni |-> jni, io |-> NoIo, mem |-> mem,
   native |-> NoNative, ret |-> r.ret, val |-> NoValue, calls |-> r.calls,
   err |-> r.err]

\* The threads.
NThreads == 2
Threads == 1..NThreads

\* A thread in managed code, and a cell no call is using.  A cell is written
\* by the call that uses it before that call reads it (java_constant at
\* entry, err_nums by the walk of a non-empty stack), so what a finished
\* call left in it is never read and is not kept.
IdleThread ==
  [pc |-> "idle", arg |-> 0, stack |-> <<>>, maj_num |-> Garbage,
   min_num |-> Garbage, result |-> NoValue, pending |-> NoException]
FreeCell == [java_constant |-> 0, err_nums |-> NoMem.first]

\* The state of the native library's handler, and the resources held.
library == <<autoHandler, autoPrinted>>
resources == <<openStreams, heldChars>>

Init ==
  /\ estack = <<>>
  /\ pending = NoException
  /\ call = Idle
  /\ autoHandler = DefaultHandler
  /\ autoPrinted = FALSE
  /\ openStreams = {}
  /\ heldChars = {}
  /\ thr = [t \in Threads |-> IdleThread]
  /\ cells = [c \in Threads |-> FreeCell]

(***************************************************************************)
(* Inputs.                                                                 *)
(***************************************************************************)
\* The identifiers managed code may pass to J2C.
JavaConstants == DefinedIds \cup RemovedDefineIds \cup UndefinedIds

\* Names of failing wrapper functions, exception classes and messages passed
\* to the raisers.
FunctNames == {"H5Dread", "H5Fopen"}
ExceptionNames == {"java/lang/RuntimeException",
                   "ncsa/hdf/hdf5lib/exceptions/HDF5JavaException"}
Messages == {"failed"}

\* Frames of the error stack.
Frames == [maj_num : MajorCodes, min_num : MinorCodes]
\* Frames the outer functions of a failed call push above the innermost one.
OuterFrames == {[maj_num |-> "H5E_FILE", min_num |-> "H5E_CANTOPENFILE"],
                [maj_num |-> "H5E_VFL", min_num |-> "H5E_BADTYPE"]}

RECURSIVE SeqsUpTo(_, _)
SeqsUpTo(S, n) ==
  IF n = 0 THEN {<<>>}
  ELSE LET shorter == SeqsUpTo(S, n - 1)
       IN shorter \cup {Append(q, x) : q \in shorter, x \in S}

\* The error stacks a failed native call leaves: an innermost frame and up
\* to MaxDepth - 1 frames above it.
FailedStacks == {<<f>> \o up : f \in Frames, up \in SeqsUpTo(OuterFrames, MaxDepth - 1)}

\* Contents of uninitialised memory read as an H5E_num_t.
UninitValues == {"H5E_ARGS", "H5E_BADTYPE", Garbage}
UninitNums == [maj_num : UninitValues, min_num : UninitValues]
Mems == [first : UninitNums, second : UninitNums,
         badCode : {NullChars, <<"Invalid error number">>}]

\* The identifiers whose case converts the native constant with (int), and
\* the values the native library's header gives those constants,
\* (hsize_t)(-1): all ones, with a 64-bit or a 32-bit hsize_t.
CastIds == {id \in LiveIds : SwitchCases[CaseOf[id]][3] = "int"}
UnlimitedValues == {AllOnes64, AllOnes32}

\* The file names managed code passes to printStackTrace0: null, or a path.
FileNames == {NullString, CStr("hdf5_trace.log"), CStr("errors.txt")}

(***************************************************************************)
(* Actions.                                                                *)
(***************************************************************************)
\* A call of the native library made by a wrapper fails and leaves its
\* frames on the error stack.
NativeCallFails ==
  /\ call.op = "idle"
  /\ \E stack \in FailedStacks : estack' = stack
  /\ autoPrinted' = (autoHandler # NoHandler)
  /\ UNCHANGED <<pending, call, autoHandler, resources, threadVars>>

\* A call of the native library succeeds; the library clears the error
\* stack on entry of an API function.
NativeCallSucceeds ==
  /\ call.op = "idle"
  /\ estack # <<>>
  /\ estack' = <<>>
  /\ autoPrinted' = FALSE
  /\ UNCHANGED <<pending, call, autoHandler, resources, threadVars>>

\* Variant: J2C calls a function of the native library, which clears the
\* error stack on entry.
J2C_clearsStack ==
  /\ call.op = "idle"
  /\ \E java_constant \in JavaConstants :
       \E jni \in (IF java_constant \in LiveIds THEN {JniAllOk} ELSE JniOutcomes) :
         \E native \in (IF java_constant \in CastIds THEN UnlimitedValues ELSE {NoNative}) :
           LET r == Java_ncsa_hdf_hdf5lib_H5_J2C(java_constant, pending, jni)
           IN /\ call' = [op |-> "J2C", arg |-> <<java_constant>>, jni |-> jni,
                          io |-> NoIo, mem |-> NoMem, native |-> native,
                          ret |-> r.ret, val |-> Convert(r.val, native),
                          calls |-> r.calls, err |-> r.err]
              /\ pending' = r.pending
  /\ estack' = <<>>
  /\ UNCHANGED <<library, resources, threadVars>>
\* Managed code calls H5.J2C(java_constant).  A live case makes no JNI call,
\* so the runtime's answers are immaterial there.  The value of the two
\* constants returned through (int) comes from the native library's header.
J2C ==
  /\ call.op = "idle"
  /\ \E java_constant \in JavaConstants :
       \E jni \in (IF java_constant \in LiveIds THEN {JniAllOk} ELSE JniOutcomes) :
         \E native \in (IF java_constant \in CastIds THEN UnlimitedValues ELSE {NoNative}) :
           LET r == Java_ncsa_hdf_hdf5lib_H5_J2C(java_constant, pending, jni)
           IN /\ call' = [op |-> "J2C", arg |-> <<java_constant>>, jni |-> jni,
                          io |-> NoIo, mem |-> NoMem, native |-> native,
                          ret |-> r.ret, val |-> Convert(r.val, native),
                          calls |-> r.calls, err |-> r.err]
              /\ pending' = r.pending
  /\ UNCHANGED <<estack, library, resources, threadVars>>

\* A wrapper calls h5libraryError.  Uninitialised memory is read only when
\* the walk visits no frame.
LibraryError ==
  /\ call.op = "idle"
  /\ \E jni \in JniOutcomes :
       \E mem \in (IF estack = <<>> THEN Mems ELSE {NoMem}) :
         LET r == h5libraryError(estack, pending, jni, mem)
         IN /\ call' = Raised("h5libraryError", <<>>, jni, mem, r)
            /\ pending' = r.pending
  /\ UNCHANGED <<estack, library, resources, threadVars>>

\* A wrapper calls one of the raisers with a one-string constructor.
OutOfMemory ==
  /\ call.op = "idle"
  /\ \E functName \in FunctNames, jni \in JniOutcomes :
       LET r == h5outOfMemory(functName, pending, jni)
       IN /\ call' = Raised("h5outOfMemory", <<functName>>, jni, NoMem, r)
          /\ pending' = r.pending
  /\ UNCHANGED <<estack, library, resources, threadVars>>

JNIFatalError ==
  /\ call.op = "idle"
  /\ \E functName \in FunctNames, jni \in JniOutcomes :
       LET r == h5JNIFatalError(functName, pending, jni)
       IN /\ call' = Raised("h5JNIFatalError", <<functName>>, jni, NoMem, r)
          /\ pending' = r.pending
  /\ UNCHANGED <<estack, library, resources, threadVars>>

NullArgument ==
  /\ call.op = "idle"
  /\ \E functName \in FunctNames, jni \in JniOutcomes :
       LET r == h5nullArgument(functName, pending, jni)
       IN /\ call' = Raised("h5nullArgument", <<functName>>, jni, NoMem, r)
          /\ pending' = r.pending
  /\ UNCHANGED <<estack, library, resources, threadVars>>

BadArgument ==
  /\ call.op = "idle"
  /\ \E functName \in FunctNames, jni \in JniOutcomes :
       LET r == h5badArgument(functName, pending, jni)
       IN /\ call' = Raised("h5badArgument", <<functName>>, jni, NoMem, r)
          /\ pending' = r.pending
  /\ UNCHANGED <<estack, library, resources, threadVars>>

Unimplemented ==
  /\ call.op = "idle"
  /\ \E functName \in FunctNames, jni \in JniOutcomes :
       LET r == h5unimplemented(functName, pending, jni)
       IN /\ call' = Raised("h5unimplemented", <<functName>>, jni, NoMem, r)
          /\ pending' = r.pending
  /\ UNCHANGED <<estack, library, resources, threadVars>>

RaiseException ==
  /\ call.op = "idle"
  /\ \E exception \in ExceptionNames, message \in Messages, jni \in JniOutcomes :
       LET r == h5raiseException(exception, message, pending, jni)
       IN /\ call' = Raised("h5raiseException", <<exception, message>>, jni, NoMem, r)
          /\ pending' = r.pending
  /\ UNCHANGED <<estack, library, resources, threadVars>>

\* Managed code calls HDF5LibraryException.getMajorErrorNumber() or
\* getMinorErrorNumber().  Uninitialised memory is read only when the walk
\* visits no frame.
GetMajorErrorNumber ==
  /\ call.op = "idle"
  /\ \E uninit \in (IF estack = <<>> THEN UninitNums ELSE {NoMem.first}) :
       LET r == JNI_getMajorErrorNumber(estack, uninit)
       IN call' = [Idle EXCEPT !.op = "getMajorErrorNumber", !.mem.first = uninit,
                               !.ret = r.ret, !.calls = r.calls]
  /\ UNCHANGED <<estack, pending, library, resources, threadVars>>

GetMinorErrorNumber ==
  /\ call.op = "idle"
  /\ \E uninit \in (IF estack = <<>> THEN UninitNums ELSE {NoMem.first}) :
       LET r == JNI_getMinorErrorNumber(estack, uninit)
       IN call' = [Idle EXCEPT !.op = "getMinorErrorNumber", !.mem.first = uninit,
                               !.ret = r.ret, !.calls = r.calls]
  /\ UNCHANGED <<estack, pending, library, resources, threadVars>>
\* Managed code calls H5.H5error_off().
ErrorOff ==
  /\ call.op = "idle"
  /\ \E answer \in {"SUCCEED", "FAIL"} :
       LET r == H5error_1off(autoHandler, answer)
       IN /\ call' = [Idle EXCEPT !.op = "H5error_off", !.ret = r.ret,
                                  !.calls = r.calls]
          /\ autoHandler' = r.handler
  /\ UNCHANGED <<estack, pending, autoPrinted, resources, threadVars>>

\* Managed code calls HDF5LibraryException.printStackTrace0(file_name).
PrintStackTrace ==
  /\ call.op = "idle"
  /\ \E file_name \in FileNames :
       \E io \in (IF file_name = NullString THEN {NoIo} ELSE IoOutcomes) :
         LET r == printStackTrace0(file_name, pending, io)
         IN /\ call' = [Idle EXCEPT !.op = "printStackTrace0", !.arg = file_name,
                                    !.io = io, !.ret = r.ret, !.calls = r.calls]
            /\ pending' = r.pending
            /\ openStreams' = openStreams \cup r.open
            /\ heldChars' = heldChars \cup r.held
  /\ UNCHANGED <<estack, library, threadVars>>

\* The native method returns to managed code, where the pending exception
\* is thrown; a call that aborted the process never returns.
ReturnToJava ==
  /\ call.op # "idle"
  /\ call.ret # "abort"
  /\ call' = Idle
  /\ pending' = NoException
  /\ UNCHANGED <<estack, library, resources, threadVars>>

Next ==
  \/ NativeCallFails
  \/ NativeCallSucceeds
  \/ J2C
  \/ LibraryError
  \/ OutOfMemory
  \/ JNIFatalError
  \/ NullArgument
  \/ BadArgument
  \/ Unimplemented
  \/ RaiseException
  \/ GetMajorErrorNumber
  \/ GetMinorErrorNumber
  \/ ErrorOff
  \/ PrintStackTrace
  \/ ReturnToJava

Spec == Init /\ [][Next]_vars

(***************************************************************************)
(* Several threads in the layer at once.  Each thread is in managed code   *)
(* ("idle"), inside J2C, or inside a wrapper whose native call failed and  *)
(* that runs h5libraryError.  A function's parameters and automatic        *)
(* variables live in a cell of memory; the steps below are the points at   *)
(* which another thread may run between a write of a cell and the read of  *)
(* it.  The native library keeps one error stack per thread.  The runtime  *)
(* answers every JNI call with success.                                    *)
(***************************************************************************)
\* Identifiers with a live case, passed to J2C by the threads.
ThreadConstants == {JH5("H5E_ARGS"), JH5("H5F_UNLIMITED"), JH5("H5S_ALL")}
\* Error stacks the threads' failed native calls leave.
ThreadStacks ==
  {<<[maj_num |-> "H5E_ARGS", min_num |-> "H5E_BADTYPE"]>>,
   <<[maj_num |-> "H5E_FILE", min_num |-> "H5E_CANTOPENFILE"]>>,
   <<[maj_num |-> "H5E_ARGS", min_num |-> "H5E_BADTYPE"],
     [maj_num |-> "H5E_VFL", min_num |-> "H5E_BADTYPE"]>>,
   <<[maj_num |-> "H5E_FILE", min_num |-> "H5E_CANTOPENFILE"],
     [maj_num |-> "H5E_VFL", min_num |-> "H5E_BADTYPE"]>>}

\* Variant: J2C keeps its argument in one static variable.
J2CFrame_static(t) == CHOOSE c \in Threads : \A d \in Threads : c <= d

\* The cell of J2C's parameter java_constant in a call by thread t: the
\* parameter is automatic, each call has its own.
J2CFrame(t) == t

\* Variant: the readers keep err_nums in one static variable.
ErrNumsCell_static(t) == CHOOSE c \in Threads : \A d \in Threads : c <= d

\* The cell of the readers' local err_nums in a call by thread t: the
\* variable is automatic, each call has its own.
ErrNumsCell(t) == t

\* Thread t enters J2C(java_constant).
ThreadJ2CEnter(t) ==
  /\ thr[t].pc = "idle"
  /\ \E java_constant \in ThreadConstants :
       /\ thr' = [thr EXCEPT ![t].pc = "J2C", ![t].arg = java_constant]
       /\ cells' = [cells EXCEPT ![J2CFrame(t)].java_constant = java_constant]
  /\ UNCHANGED seqVars

\* Thread t runs J2C's switch on its parameter.
ThreadJ2CSwitch(t) ==
  /\ thr[t].pc = "J2C"
  /\ LET r == Java_ncsa_hdf_hdf5lib_H5_J2C(cells[J2CFrame(t)].java_constant,
                                           thr[t].pending, JniAllOk)
     IN thr' = [thr EXCEPT ![t].pc = "J2C_ret", ![t].result = r.val,
                           ![t].pending = r.pending]
  /\ UNCHANGED <<cells, seqVars>>

\* A native call made by a wrapper on thread t fails and leaves its frames
\* on the thread's error stack.
ThreadNativeCallFails(t) ==
  /\ thr[t].pc = "idle"
  /\ \E stack \in ThreadStacks :
       thr' = [thr EXCEPT ![t].pc = "failed", ![t].stack = stack]
  /\ UNCHANGED <<cells, seqVars>>

\* h5libraryError on thread t: getMajorErrorNumber's walk of the thread's
\* stack fills err_nums ...
ThreadWalkMajor(t) ==
  /\ thr[t].pc = "failed"
  /\ cells' = [cells EXCEPT ![ErrNumsCell(t)].err_nums =
                 H5Ewalk(thr[t].stack, Len(thr[t].stack), @)]
  /\ thr' = [thr EXCEPT ![t].pc = "maj_walked"]
  /\ UNCHANGED seqVars

\* ... and its return statement reads err_nums.maj_num into maj_num.
ThreadReadMajor(t) ==
  /\ thr[t].pc = "maj_walked"
  /\ thr' = [thr EXCEPT ![t].pc = "maj_read",
                        ![t].maj_num = cells[ErrNumsCell(t)].err_nums.maj_num]
  /\ UNCHANGED <<cells, seqVars>>

\* getMinorErrorNumber's walk fills its err_nums ...
ThreadWalkMinor(t) ==
  /\ thr[t].pc = "maj_read"
  /\ cells' = [cells EXCEPT ![ErrNumsCell(t)].err_nums =
                 H5Ewalk(thr[t].stack, Len(thr[t].stack), @)]
  /\ thr' = [thr EXCEPT ![t].pc = "min_walked"]
  /\ UNCHANGED seqVars

\* ... its return statement reads err_nums.min_num into min_num, and
\* h5libraryError builds and throws the exception.
ThreadThrow(t) ==
  /\ thr[t].pc = "min_walked"
  /\ LET maj_num == thr[t].maj_num
         min_num == cells[ErrNumsCell(t)].err_nums.min_num
         ex == LibraryException(defineHDF5LibraryException(maj_num), maj_num,
                                NewStringUTF(H5Eget_major(maj_num, NullChars), "ok"),
                                min_num,
                                NewStringUTF(H5Eget_minor(min_num, NullChars), "ok"))
     IN thr' = [thr EXCEPT ![t].pc = "thrown", ![t].min_num = min_num,
                           ![t].pending = Throw(ex, thr[t].pending, JniAllOk).pending]
  /\ UNCHANGED <<cells, seqVars>>

\* The native method returns to managed code on thread t; its cells are
\* free again.
ThreadReturn(t) ==
  /\ thr[t].pc \in {"J2C_ret", "thrown"}
  /\ thr' = [thr EXCEPT ![t] = IdleThread]
  /\ cells' = [cells EXCEPT ![J2CFrame(t)] = FreeCell, ![ErrNumsCell(t)] = FreeCell]
  /\ UNCHANGED seqVars

NextThreads ==
  \/ \E t \in Threads : ThreadJ2CEnter(t)
  \/ \E t \in Threads : ThreadJ2CSwitch(t)
  \/ \E t \in Threads : ThreadNativeCallFails(t)
  \/ \E t \in Threads : ThreadWalkMajor(t)
  \/ \E t \in Threads : ThreadReadMajor(t)
  \/ \E t \in Threads : ThreadWalkMinor(t)
  \/ \E t \in Threads : ThreadThrow(t)
  \/ \E t \in Threads : ThreadReturn(t)

SpecThreads == Init /\ [][NextThreads]_vars

(***************************************************************************)
(* Vocabulary of the properties.                                           *)
(***************************************************************************)
\* The functions of the native library this layer calls.
NativeLibraryCalls == {"H5Ewalk", "H5Eget_major", "H5Eget_minor", "H5Eset_auto", "H5Eprint"}
\* The raisers of exceptionImp.c.
Raisers ==
  {"h5libraryError", "h5outOfMemory", "h5JNIFatalError", "h5nullArgument",
   "h5badArgument", "h5unimplemented", "h5illegalConstantError", "h5raiseException"}

\* How often the call just made called f with any argument.
Times(f) == Cardinality({i \in DOMAIN call.calls : call.calls[i][1] = f})
\* The call just made called f with argument a.
Called(f, a) == \E i \in DOMAIN call.calls : call.calls[i] = <<f, a>>
\* The call just made is a call of a raiser, or of J2C that called one.
RaiserRan == \E i \in DOMAIN call.calls : call.calls[i][1] = "call" /\ call.calls[i][2] \in Raisers
\* The call just made called a function of the native library.
NativeCallMade == \E i \in DOMAIN call.calls : call.calls[i][1] \in NativeLibraryCalls

\* Every JNI function the runtime offers answered with success.
RuntimeWorks(jni) ==
  /\ jni.findClass = "ok"
  /\ jni.getMethodID = "ok"
  /\ jni.newString1 = "ok"
  /\ jni.newString2 = "ok"
  /\ jni.newObject = "ok"
  /\ jni.throw = "ok"

\* The illegal-constant exception.
IllegalConstant ==
  StringException("java/lang/IllegalArgumentException",
                  Text(CStr("Illegal java constant")))

\* The name (without the leading J) that h5Constants.h gives the integer id.
NameOfId(id) == JH5Defines[CHOOSE i \in DOMAIN JH5Defines : JH5Defines[i][2] = id][1]

(***************************************************************************)
(* C1.  For every identifier with a live case in the switch, J2C returns   *)
(* the native constant of the same name (JH5x_NAME -> H5x_NAME), leaves no *)
(* exception pending and calls no raiser (it makes no call at all and      *)
(* writes nothing).                                                        *)
(***************************************************************************)
C1_LiveCaseReturnsSameName ==
  (call.op = "J2C" /\ call.arg[1] \in LiveIds) =>
     /\ call.val.const = NameOfId(call.arg[1])
     /\ call.val.cast \in {"", "int"}
     /\ pending = NoException
     /\ ~RaiserRan
     /\ call.calls = <<>>
     /\ call.err = <<>>

\* J2C has translated JH5E_ARGS (1270) to H5E_ARGS.
C1_Witness ==
  /\ call.op = "J2C"
  /\ call.arg = <<1270>>
  /\ 1270 \in LiveIds
  /\ call.val = NativeValue("H5E_ARGS", "")

(***************************************************************************)
(* C2.  For any integer that is not a live case of the switch, J2C calls   *)
(* the illegal-constant raiser once and makes no call of the native        *)
(* library; unless the process dies in the raiser it returns -1; and with  *)
(* a runtime whose JNI calls succeed the exception left pending is         *)
(* IllegalArgumentException("Illegal java constant").                      *)
(***************************************************************************)
C2_UnknownIdRaisesIllegalConstant ==
  (call.op = "J2C" /\ call.arg[1] \notin LiveIds) =>
     /\ ~NativeCallMade
     /\ Times("call") = 1
     /\ Called("call", "h5illegalConstantError")
     /\ call.val.const = ""
     /\ call.ret # "abort" => call.val = Literal(-1)
     /\ RuntimeWorks(call.jni) => pending = IllegalConstant

\* J2C was called on the undefined integer 999 and the exception is pending.
C2_Witness ==
  /\ call.op = "J2C"
  /\ call.arg = <<999>>
  /\ 999 \notin LiveIds
  /\ pending = IllegalConstant
  /\ call.val = Literal(-1)

(***************************************************************************)
(* C3.  The translator is total over the identifiers h5Constants.h defines *)
(* with an active #define: J2C returns a native value for each and does    *)
(* not raise illegal-constant.                                             *)
(***************************************************************************)
C3_TotalOverDefinedIds ==
  (call.op = "J2C" /\ call.arg[1] \in DefinedIds) =>
     /\ call.val.const # ""
     /\ ~Called("call", "h5illegalConstantError")
     /\ pending = NoException

(***************************************************************************)
(* C4.  Every identifier of a commented-out case (the cases removed from   *)
(* the linked library version, among them the integers listed in           *)
(* RetiredIdsNamed) is absent from the live mapping: J2C on it yields no   *)
(* native value, calls the illegal-constant raiser, and with a runtime     *)
(* whose JNI calls succeed leaves illegal-constant pending.                *)
(***************************************************************************)
RetiredIdsNamed ==
  {1430, 1440, 1640, 1680, 1720, 1780, 1890, 2180, 2210, 2590, 2730, 2780,
   2800, 2910, 2920, 2940, 2970, 3020, 3490}

C4_RetiredIdsAbsent ==
  /\ RetiredIdsNamed \subseteq RemovedCaseIds
  /\ (call.op = "J2C" /\ call.arg[1] \in RemovedCaseIds) =>
        /\ call.val.const = ""
        /\ Called("call", "h5illegalConstantError")
        /\ RuntimeWorks(call.jni) => pending = IllegalConstant

\* J2C was called on 1640 (JH5E_CANTMAKETREE, still defined in the header,
\* its case commented out) and raised illegal-constant.
C4_Witness ==
  /\ call.op = "J2C"
  /\ call.arg = <<1640>>
  /\ 1640 \in RemovedCaseIds
  /\ 1640 \in DefinedIds
  /\ pending = IllegalConstant
  /\ call.val = Literal(-1)

(***************************************************************************)
(* Vocabulary of the exception bridge's properties.                        *)
(***************************************************************************)
\* The frame a downward walk visits last: the innermost frame.
Retained == estack[1]
\* The messages of the native library's tables.
MajorMessage(M) == <<"major message", M>>
MinorMessage(m) == <<"minor message", m>>

\* The raiser's FindClass, GetMethodID or NewObjectA failed.
ClassNotFound == RaiserRan /\ call.jni.findClass # "ok"
ConstructorNotFound ==
  RaiserRan /\ call.jni.findClass = "ok" /\ call.jni.getMethodID # "ok"
ConstructionFailed ==
  RaiserRan /\ Times("NewObjectA") = 1 /\ call.jni.newObject # "ok"

\* The raiser's Throw was issued on an object and reported success.
ThrowSucceeded ==
  /\ RaiserRan
  /\ \E i \in DOMAIN call.calls :
        call.calls[i][1] = "Throw" /\ call.calls[i][2] # "NULL"
  /\ call.jni.throw = "ok"

(***************************************************************************)
(* C5.  With a working runtime, h5libraryError on an error stack whose     *)
(* retained frame has major code M and minor code m leaves pending an      *)
(* exception of class defineHDF5LibraryException(M) built from the four    *)
(* arguments M, the major message of M, m, the minor message of m, in this *)
(* order, and both messages are looked up by this call.                    *)
(***************************************************************************)
C5_LibraryErrorPayload ==
  (call.op = "h5libraryError" /\ estack # <<>> /\ RuntimeWorks(call.jni)) =>
     /\ pending = LibraryException(defineHDF5LibraryException(Retained.maj_num),
                                   Retained.maj_num,
                                   Text(MajorMessage(Retained.maj_num)),
                                   Retained.min_num,
                                   Text(MinorMessage(Retained.min_num)))
     /\ Called("FindClass", defineHDF5LibraryException(Retained.maj_num))
     /\ Called("GetMethodID", "(ILjava/lang/String;ILjava/lang/String;)V")
     /\ Called("H5Eget_major", Retained.maj_num)
     /\ Called("H5Eget_minor", Retained.min_num)
     /\ Times("H5Eget_major") = 1
     /\ Times("H5Eget_minor") = 1
     /\ call.ret = "JNI_TRUE"

\* h5libraryError raised HDF5FileInterfaceException for a stack of two
\* frames whose innermost frame is (H5E_FILE, H5E_BADTYPE) and whose top
\* frame differs from it.
C5_Witness ==
  /\ call.op = "h5libraryError"
  /\ Len(estack) = 2
  /\ estack[1] = [maj_num |-> "H5E_FILE", min_num |-> "H5E_BADTYPE"]
  /\ estack[2] = [maj_num |-> "H5E_VFL", min_num |-> "H5E_BADTYPE"]
  /\ RuntimeWorks(call.jni)
  /\ pending.class = "ncsa/hdf/hdf5lib/exceptions/HDF5FileInterfaceException"
  /\ pending.min = "H5E_BADTYPE"

(***************************************************************************)
(* C6.  defineHDF5LibraryException is total: every major code that equals  *)
(* none of the 21 compared categories gets the generic HDF5LibraryException*)
(* class name, and h5libraryError on such a code looks up that class and,  *)
(* with a working runtime, raises an exception of that class.              *)
(***************************************************************************)
\* The major code h5libraryError reads: the retained frame's, or what the
\* uninitialised local held when the stack is empty.
MajorRead == IF estack # <<>> THEN Retained.maj_num ELSE call.mem.first.maj_num

C6_UnrecognizedMajorIsGeneric ==
  /\ Cardinality(RecognizedMajors) = 21
  /\ \A maj \in MajorCodes \cup MinorCodes \cup UninitValues :
        maj \notin RecognizedMajors =>
           defineHDF5LibraryException(maj) = GenericLibraryException
  /\ (call.op = "h5libraryError" /\ MajorRead \notin RecognizedMajors) =>
        /\ Called("FindClass", GenericLibraryException)
        /\ Times("FindClass") = 1
        /\ \A i \in DOMAIN call.calls :
              call.calls[i][1] \in {"NewObjectA", "FindClass"} =>
                 call.calls[i][2] = GenericLibraryException
        /\ (RuntimeWorks(call.jni) /\ Times("Throw") = 1) =>
              /\ pending.class = GenericLibraryException
              /\ pending.maj = MajorRead
              /\ call.ret = "JNI_TRUE"

\* h5libraryError raised the generic kind for a frame of major code H5E_VFL.
C6_Witness ==
  /\ call.op = "h5libraryError"
  /\ estack # <<>>
  /\ Retained.maj_num = "H5E_VFL"
  /\ "H5E_VFL" \notin RecognizedMajors
  /\ pending.class = GenericLibraryException
  /\ pending.maj = "H5E_VFL"
  /\ call.ret = "JNI_TRUE"

(***************************************************************************)
(* C7.  One call of h5libraryError raises exactly one exception: when the  *)
(* class lookup, the constructor lookup, the creation of both message      *)
(* strings and the instantiation succeed, Throw is issued exactly once and *)
(* the call returns true exactly when that Throw reported success; the     *)
(* exception pending afterwards is the thrown one, or none when Throw      *)
(* failed.                                                                 *)
(***************************************************************************)
C7_ExactlyOneThrow ==
  (/\ call.op = "h5libraryError"
   /\ call.jni.findClass = "ok"
   /\ call.jni.getMethodID = "ok"
   /\ Times("NewObjectA") = 1
   /\ call.jni.newObject = "ok") =>
     /\ Times("Throw") = 1
     /\ call.calls[Len(call.calls)] = <<"Throw", defineHDF5LibraryException(MajorRead)>>
     /\ call.ret \in {"JNI_TRUE", "JNI_FALSE"}
     /\ call.ret = "JNI_TRUE" <=> call.jni.throw = "ok"
     /\ call.jni.throw = "ok" => pending.class = defineHDF5LibraryException(MajorRead)
     /\ call.jni.throw # "ok" => pending = NoException

\* h5libraryError built the exception object and Throw reported failure:
\* the call returned false.
C7_Witness ==
  /\ call.op = "h5libraryError"
  /\ estack # <<>>
  /\ call.jni.findClass = "ok"
  /\ call.jni.getMethodID = "ok"
  /\ call.jni.newObject = "ok"
  /\ Times("NewObjectA") = 1
  /\ Times("Throw") = 1
  /\ call.jni.throw = "fail"
  /\ call.ret = "JNI_FALSE"

(***************************************************************************)
(* C8.  A raiser never returns from the throw: after a successful Throw    *)
(* control does not come back to the raiser's C caller.                    *)
(***************************************************************************)
C8_NoReturnAfterThrow ==
  ThrowSucceeded => call.ret \notin {"JNI_TRUE", "JNI_FALSE"}

(***************************************************************************)
(* C9.  For every raiser, each of the three infrastructure failures (class *)
(* not found, constructor not found, object construction failed) makes the *)
(* raiser return JNI_FALSE.                                                *)
(***************************************************************************)
C9_InfrastructureFailureReturnsFalse ==
  (ClassNotFound \/ ConstructorNotFound \/ ConstructionFailed) =>
     call.ret = "JNI_FALSE"

(***************************************************************************)
(* C10.  For every raiser, each of the three infrastructure failures       *)
(* causes a diagnostic line to be written to stderr before the raiser      *)
(* returns.                                                                *)
(***************************************************************************)
C10_InfrastructureFailureIsLogged ==
  (ClassNotFound \/ ConstructorNotFound \/ ConstructionFailed) =>
     call.err # <<>>

(***************************************************************************)
(* C11.  When a raiser fails because the exception class, its constructor  *)
(* or the exception object cannot be obtained, no exception of a kind      *)
(* other than the intended one (the class the raiser looked up) is left    *)
(* pending by the raiser's call.                                           *)
(***************************************************************************)
\* The class the raiser meant to raise: the one it passed to FindClass.
IntendedClass ==
  call.calls[CHOOSE i \in DOMAIN call.calls : call.calls[i][1] = "FindClass"][2]

C11_NoOtherExceptionOnFailure ==
  (ClassNotFound \/ ConstructorNotFound \/ ConstructionFailed) =>
     pending.class \in {"none", IntendedClass}

(***************************************************************************)
(* C12.  getMajorErrorNumber and getMinorErrorNumber walk the whole error  *)
(* stack downward, from the top frame to the innermost one, without        *)
(* stopping early (the callback returns 0 on every frame), and return the  *)
(* major, respectively minor, code of the last frame visited: on a         *)
(* non-empty stack the codes of the innermost frame, whatever the memory   *)
(* held before.                                                            *)
(***************************************************************************)
\* The frames of the stack from the top one down to the innermost one.
TopDown(stack) == [i \in 1..Len(stack) |-> stack[Len(stack) + 1 - i]]

ReaderRan == call.op \in {"getMajorErrorNumber", "getMinorErrorNumber"}

C12_ReadersReturnDeepestFrame ==
  estack # <<>> =>
    /\ \A u \in UninitNums :
         /\ WalkVisits(estack, Len(estack), u) = TopDown(estack)
         /\ \A i \in 1..Len(estack) : walk_error_callback(<<estack[i]>>, u).status = 0
         /\ getMajorErrorNumber(estack, u) = estack[1].maj_num
         /\ getMinorErrorNumber(estack, u) = estack[1].min_num
    /\ call.op = "getMajorErrorNumber" => call.ret = estack[1].maj_num
    /\ call.op = "getMinorErrorNumber" => call.ret = estack[1].min_num
    /\ ReaderRan => Times("H5Ewalk") = 1 /\ Called("H5Ewalk", "H5E_WALK_DOWNWARD")

\* The minor reader has run on a stack of two frames with different codes
\* and returned the innermost frame's minor code.
C12_Witness ==
  /\ call.op = "getMinorErrorNumber"
  /\ Len(estack) = 2
  /\ estack[1].min_num # estack[2].min_num
  /\ estack[1].maj_num # estack[2].maj_num
  /\ call.ret = estack[1].min_num

(***************************************************************************)
(* C13.  On an empty error stack the readers return a defined "none"       *)
(* pair: the value returned does not depend on what the memory of the      *)
(* reader's local err_nums held before the call, and it is not the code of *)
(* a real error category.                                                  *)
(***************************************************************************)
\* The codes that name a real error category.
RealCategories == (MajorCodes \ {"H5E_NONE_MAJOR"}) \cup MinorCodes

C13_EmptyStackReadsNone ==
  (estack = <<>> /\ ReaderRan) =>
     /\ call.ret \notin RealCategories
     /\ call.op = "getMajorErrorNumber" =>
          \A u \in UninitNums : JNI_getMajorErrorNumber(estack, u).ret = call.ret
     /\ call.op = "getMinorErrorNumber" =>
          \A u \in UninitNums : JNI_getMinorErrorNumber(estack, u).ret = call.ret

(***************************************************************************)
(* C14.  Each specialized raiser raises its own fixed class through the    *)
(* one-string constructor, with the text it was given as the only          *)
(* argument: h5outOfMemory OutOfMemoryError, h5JNIFatalError               *)
(* InternalError, h5nullArgument NullPointerException, h5badArgument       *)
(* IllegalArgumentException, h5unimplemented                               *)
(* UnsupportedOperationException, h5illegalConstantError                   *)
(* IllegalArgumentException("Illegal java constant"), h5raiseException the *)
(* class named by its first argument with its second as the text.  The     *)
(* class looked up is the raiser's own in every run; the exception is      *)
(* pending when the runtime answers every JNI call with success.           *)
(***************************************************************************)
\* The class of each raiser that takes the failing function's name.
KindOf ==
  [r \in {"h5outOfMemory", "h5JNIFatalError", "h5nullArgument", "h5badArgument",
          "h5unimplemented"} |->
     CASE r = "h5outOfMemory"   -> "java/lang/OutOfMemoryError"
       [] r = "h5JNIFatalError" -> "java/lang/InternalError"
       [] r = "h5nullArgument"  -> "java/lang/NullPointerException"
       [] r = "h5badArgument"   -> "java/lang/IllegalArgumentException"
       [] r = "h5unimplemented" -> "java/lang/UnsupportedOperationException"]

\* The call just made looked up class and, the runtime working, left an
\* instance of it built from the one string text pending.
RaisedWith(class, text) ==
  /\ Times("FindClass") = 1
  /\ Called("FindClass", class)
  /\ RuntimeWorks(call.jni) =>
       /\ pending = StringException(class, Text(CStr(text)))
       /\ Called("GetMethodID", "(Ljava/lang/String;)V")
       /\ Times("NewStringUTF") = 1
       /\ Called("NewStringUTF", text)
       /\ Called("NewObjectA", class)
       /\ Called("Throw", class)

C14_SpecializedRaisersRaiseOwnKind ==
  /\ \A r \in DOMAIN KindOf : call.op = r => RaisedWith(KindOf[r], call.arg[1])
  /\ call.op = "h5raiseException" => RaisedWith(call.arg[1], call.arg[2])
  /\ Called("call", "h5illegalConstantError") =>
       RaisedWith("java/lang/IllegalArgumentException", "Illegal java constant")

\* h5unimplemented("H5Dread") has left UnsupportedOperationException("H5Dread")
\* pending.
C14_Witness ==
  /\ call.op = "h5unimplemented"
  /\ call.arg = <<"H5Dread">>
  /\ pending = StringException("java/lang/UnsupportedOperationException",
                               Text(CStr("H5Dread")))

(***************************************************************************)
(* Vocabulary of the dump properties.                                      *)
(***************************************************************************)
PrintRan == call.op = "printStackTrace0"
\* The path printStackTrace0 was given (its argument is not null).
PathGiven == call.arg[1]
\* The stream the stack was printed to by the one H5Eprint call made.
DumpEntry == call.calls[CHOOSE i \in DOMAIN call.calls : call.calls[i][1] = "H5Eprint"]
DumpStream == H5Eprint(<<DumpEntry[2], DumpEntry[3]>>)
\* The path characters were obtained and the file was opened.
FileOpened == call.io.getChars = "ok" /\ call.io.fopen = "ok"
\* printStackTrace0 with a null file name: one H5Eprint to stderr, no file.
DumpToStderrOnly ==
  /\ call.calls = << <<"H5Eprint">> \o Stderr >>
  /\ Times("fopen") = 0
  /\ openStreams = {}

C16_DumpReleasesResources ==
  /\ openStreams = {}
  /\ heldChars = {}
  /\ (PrintRan /\ call.arg # NullString) =>
       /\ call.io.getChars = "ok" =>
            \E i \in DOMAIN call.calls :
               call.calls[i] = <<"ReleaseStringUTFChars", PathGiven, PathGiven>>
       /\ FileOpened =>
            \E i \in DOMAIN call.calls :
               call.calls[i] = <<"fclose">> \o FileStream(PathGiven)
       /\ call.io.getChars # "ok" => Times("fclose") = 0

\* A dump whose file could not be opened has returned, the path characters
\* released.
C16_Witness ==
  /\ PrintRan
  /\ call.arg = CStr("errors.txt")
  /\ call.io.getChars = "ok"
  /\ call.io.fopen = "NULL"
  /\ call.ret = "void"
  /\ Times("ReleaseStringUTFChars") = 1
  /\ heldChars = {}

(***************************************************************************)
(* C17.  After H5error_off has returned success the automatic handler of   *)
(* the default error stack is unset; no operation of this layer sets it    *)
(* again, and a native call that fails while it is unset produces no       *)
(* automatic error output.                                                 *)
(***************************************************************************)
\* In this step a native call fails and leaves its frames on the stack.
NativeCallFailsNow == call.op = "idle" /\ call' = call /\ estack' # <<>> /\ pending' = pending

C17_ErrorOffStaysOff ==
  /\ [](call.op = "H5error_off" =>
          /\ call.calls = << <<"H5Eset_auto", "H5E_DEFAULT", "NULL", "NULL">> >>
          /\ call.ret = "SUCCEED" => autoHandler = NoHandler)
  /\ [][autoHandler = NoHandler => autoHandler' = NoHandler]_vars
  /\ [][(autoHandler = NoHandler /\ NativeCallFailsNow) => ~autoPrinted']_vars

\* A native call has failed without output after H5error_off succeeded (the
\* stack is cleared and the output flag reset by every successful call).
C17_Witness ==
  /\ autoHandler = NoHandler
  /\ estack # <<>>
  /\ ~autoPrinted
  /\ call.op = "idle"

(***************************************************************************)
(* C18.  In any interleaving of J2C calls made by several threads on       *)
(* identifiers with a live case, each call returns the value it returns    *)
(* when it runs alone, the native constant its identifier names, and a     *)
(* step of a thread inside J2C writes no memory of another thread.         *)
(***************************************************************************)
\* In this step thread t moves inside J2C.
J2CStep(t) == thr'[t] # thr[t] /\ thr'[t].pc \in {"J2C", "J2C_ret"}
\* In this step no cell other than those of thread t's calls changes.
OnlyOwnCells(t) == \A c \in Threads \ {t} : cells'[c] = cells[c]

C18_ConcurrentJ2CUnaffected ==
  /\ [](\A t \in Threads :
          thr[t].pc = "J2C_ret" =>
            /\ thr[t].arg \in LiveIds
            /\ thr[t].result =
                 Java_ncsa_hdf_hdf5lib_H5_J2C(thr[t].arg, NoException, JniAllOk).val
            /\ thr[t].result.const = NameOfId(thr[t].arg)
            /\ thr[t].pending = NoException)
  /\ [][\A t \in Threads : J2CStep(t) => OnlyOwnCells(t)]_vars

\* Thread 1 has its result while thread 2, called on another identifier, is
\* between its entry and its switch.
C18_Witness ==
  /\ thr[1].pc = "J2C_ret"
  /\ thr[2].pc = "J2C"
  /\ thr[1].arg = JH5("H5E_ARGS")
  /\ thr[2].arg = JH5("H5F_UNLIMITED")
  /\ thr[1].result.const = "H5E_ARGS"

(***************************************************************************)
(* C19.  When several threads each fail a native call and each run         *)
(* h5libraryError, in any interleaving, the exception raised on a thread   *)
(* has the class and the major and minor codes of the innermost frame of   *)
(* that thread's own error stack, and a step of a thread inside            *)
(* h5libraryError writes no memory of another thread.                      *)
(***************************************************************************)
\* In this step thread t moves inside h5libraryError.
LibraryErrorStep(t) ==
  thr'[t] # thr[t] /\ thr'[t].pc \in {"maj_walked", "maj_read", "min_walked", "thrown"}

C19_ConcurrentRaisesCarryOwnCodes ==
  /\ [](\A t \in Threads :
          thr[t].pc = "thrown" =>
            /\ thr[t].pending.class = defineHDF5LibraryException(thr[t].stack[1].maj_num)
            /\ thr[t].pending.maj = thr[t].stack[1].maj_num
            /\ thr[t].pending.min = thr[t].stack[1].min_num)
  /\ [][\A t \in Threads : LibraryErrorStep(t) => OnlyOwnCells(t)]_vars

\* Two threads have raised, each the exception of its own stack, the stacks
\* differing in both codes.
C19_Witness ==
  /\ thr[1].pc = "thrown"
  /\ thr[2].pc = "thrown"
  /\ thr[1].stack[1].maj_num = "H5E_ARGS"
  /\ thr[2].stack[1].maj_num = "H5E_FILE"
  /\ thr[1].pending.min = "H5E_BADTYPE"
  /\ thr[2].pending.min = "H5E_CANTOPENFILE"
  /\ thr[1].pending.class # thr[2].pending.class

(***************************************************************************)
(* C20.  For JH5S_UNLIMITED and JH5F_UNLIMITED, and for no other           *)
(* identifier, J2C converts the native constant with (int): the jint       *)
(* returned is the signed 32-bit integer whose two's-complement bits are   *)
(* the low 32 bits of the unsigned native value, so the all-ones native    *)
(* value is returned as -1, not clamped and not zero.                      *)
(***************************************************************************)
C20_UnlimitedKeepsBitPattern ==
  /\ CastIds = {JH5("H5F_UNLIMITED"), JH5("H5S_UNLIMITED")}
  /\ (call.op = "J2C" /\ call.arg[1] \in CastIds) =>
       /\ call.val.const \in {"H5F_UNLIMITED", "H5S_UNLIMITED"}
       /\ call.val.lit % 2^16 = call.native[4]
       /\ (call.val.lit \div 2^16) % 2^16 = call.native[3]
       /\ (call.native[3] = 2^16 - 1 /\ call.native[4] = 2^16 - 1) => call.val.lit = -1

\* J2C(JH5S_UNLIMITED) has returned -1 for the 64-bit all-ones value.
C20_Witness ==
  /\ call.op = "J2C"
  /\ call.arg = <<JH5("H5S_UNLIMITED")>>
  /\ call.native = <<65535, 65535, 65535, 65535>>
  /\ call.val.const = "H5S_UNLIMITED"
  /\ call.val.lit = -1

(***************************************************************************)
(* C21.  A call of J2C on an identifier with a live case has no side       *)
(* effect: it leaves the native error stack, the automatic error handler   *)
(* (and what it printed), the pending exception of the runtime and the     *)
(* resources held unchanged, calls nothing and writes nothing.             *)
(***************************************************************************)
\* In this step managed code calls J2C on an identifier with a live case.
J2CKnownNow == call.op = "idle" /\ call'.op = "J2C" /\ call'.arg[1] \in LiveIds

C21_J2CHasNoSideEffect ==
  [][J2CKnownNow =>
       /\ estack' = estack
       /\ autoHandler' = autoHandler
       /\ autoPrinted' = autoPrinted
       /\ pending' = pending
       /\ openStreams' = openStreams
       /\ heldChars' = heldChars
       /\ call'.calls = <<>>
       /\ call'.err = <<>>]_vars

\* J2C has translated JH5S_ALL with frames on the error stack and the
\* automatic handler off; nothing is pending.
C21_Witness ==
  /\ call.op = "J2C"
  /\ call.arg = <<JH5("H5S_ALL")>>
  /\ estack # <<>>
  /\ autoHandler = NoHandler
  /\ pending = NoException

(***************************************************************************)
(* C22.  The identifier space is a function: no name is defined twice in   *)
(* h5Constants.h, no two names share an integer, and no two case labels of *)
(* the switch expand to the same integer, so every identifier integer      *)
(* passed to J2C selects exactly one native constant.                      *)
(***************************************************************************)
DefinedNames == {JH5Defines[i][1] : i \in DOMAIN JH5Defines}
\* The rows of the header, and the case labels, an integer matches.
DefinesOf(id) == {i \in DOMAIN JH5Defines : JH5Defines[i][2] = id}
CasesOf(id) == {i \in DOMAIN SwitchCases : CaseLabel[i] = id}

IdentifierSpaceIsFunction ==
  /\ Cardinality(DefinedNames) = Len(JH5Defines)
  /\ Cardinality(DefinedIds) = Len(JH5Defines)
  /\ Cardinality({JH5(n) : n \in DefinedNames}) = Cardinality(DefinedNames)
  /\ Cardinality(LiveIds) = Len(SwitchCases)

C22_IdentifierSpaceIsFunction ==
  /\ IdentifierSpaceIsFunction
  /\ (call.op = "J2C" /\ call.arg[1] \in DefinedIds) =>
       /\ Cardinality(DefinesOf(call.arg[1])) = 1
       /\ call.arg[1] \in LiveIds =>
            /\ Cardinality(CasesOf(call.arg[1])) = 1
            /\ \A i \in CasesOf(call.arg[1]) : call.val.const = SwitchCases[i][2]

\* J2C has translated JH5E_ATOM, whose integer no other name has.
C22_Witness ==
  /\ call.op = "J2C"
  /\ call.arg = <<JH5("H5E_ATOM")>>
  /\ call.val.const = "H5E_ATOM"
  /\ Cardinality(DefinesOf(JH5("H5E_ATOM"))) = 1

(***************************************************************************)
(* C23.  Every raiser runs its steps in the order locate class, locate     *)
(* constructor, build message string(s), instantiate, raise, each step at  *)
(* most once, and executes no later step after a step has failed: no       *)
(* constructor lookup after the class was not found, no object is          *)
(* instantiated after a message string could not be built, and no Throw is *)
(* issued after instantiation failed.                                      *)
(***************************************************************************)
\* The JNI steps of a raiser and their place in the order.
RaiserSteps == <<"FindClass", "GetMethodID", "NewStringUTF", "NewObjectA", "Throw">>
StepRank(f) == CHOOSE k \in DOMAIN RaiserSteps : RaiserSteps[k] = f
IsRaiserStep(e) == \E k \in DOMAIN RaiserSteps : RaiserSteps[k] = e[1]
\* A message string was requested and could not be built.
StringFailed ==
  /\ Times("NewStringUTF") >= 1
  /\ call.jni.newString1 # "ok" \/ call.jni.newString2 # "ok"

C23_StepsInOrderNoneAfterFailure ==
  RaiserRan =>
    /\ \A i, j \in DOMAIN call.calls :
          (i < j /\ IsRaiserStep(call.calls[i]) /\ IsRaiserStep(call.calls[j])) =>
             StepRank(call.calls[i][1]) <= StepRank(call.calls[j][1])
    /\ \A f \in {"FindClass", "GetMethodID", "NewObjectA", "Throw"} : Times(f) <= 1
    /\ Times("NewStringUTF") <= 2
    /\ ClassNotFound => Times("GetMethodID") = 0
    /\ ConstructorNotFound => Times("NewStringUTF") = 0
    /\ StringFailed => Times("NewObjectA") = 0
    /\ ConstructionFailed => Times("Throw") = 0

(***************************************************************************)
(* C24.  h5libraryError finishes reading the error stack, the major and    *)
(* the minor code both, before it makes any other call of the native       *)
(* library: in the calls of one h5libraryError run every walk of the stack *)
(* comes before every other native-library call, and both walks are made.  *)
(***************************************************************************)
C24_StackReadBeforeOtherNativeCalls ==
  call.op = "h5libraryError" =>
    /\ Times("H5Ewalk") >= 1
    /\ \A i, j \in DOMAIN call.calls :
          (/\ call.calls[i][1] = "H5Ewalk"
           /\ call.calls[j][1] \in NativeLibraryCalls \ {"H5Ewalk"}) => i < j


(***************************************************************************)
(* C25.  Order of the checks of defineHDF5LibraryException.                *)
(***************************************************************************)

\* The chain of checks taken in the order `order` (a sequence of positions
\* of MajorChecks), followed by the final else.
RECURSIVE defineInOrder(_, _, _)
defineInOrder(order, k, maj_num) ==
  IF k > Len(order) THEN GenericLibraryException
  ELSE IF maj_num = MajorChecks[order[k]][1] THEN MajorChecks[order[k]][2]
  ELSE defineInOrder(order, k + 1, maj_num)

\* The orders tried: every rotation of the written order, the reversed
\* order and every exchange of two neighbouring checks.
CheckOrders ==
  LET n == Len(MajorChecks)
  IN  {[i \in 1..n |-> ((i + r - 1) % n) + 1] : r \in 0..(n - 1)}
      \cup {[i \in 1..n |-> n + 1 - i]}
      \cup {[i \in 1..n |-> IF i = j THEN j + 1 ELSE IF i = j + 1 THEN j ELSE i]
              : j \in 1..(n - 1)}

\* The codes a major number can hold when the classification runs.
ClassifiedCodes == MajorCodes \cup MinorCodes \cup UninitValues

\* The checks a code satisfies.
ChecksMatching(maj_num) ==
  {i \in DOMAIN MajorChecks : MajorChecks[i][1] = maj_num}

OrderIndependent ==
  /\ Len(MajorChecks) = 21
  /\ Cardinality(RecognizedMajors) = Len(MajorChecks)
  /\ \A maj_num \in ClassifiedCodes : Cardinality(ChecksMatching(maj_num)) <= 1
  /\ \A maj_num \in ClassifiedCodes : \A order \in CheckOrders :
       defineInOrder(order, 1, maj_num) = defineHDF5LibraryException(maj_num)

\* C25: the 21 constants compared by defineHDF5LibraryException are pairwise
\* distinct, so every code satisfies at most one check and the chain taken
\* in any other order returns the class name the written order returns; the
\* class h5libraryError looks up is therefore the class of the only check
\* its major code satisfies, or the generic class when it satisfies none.
C25_CheckOrderDoesNotMatter ==
  /\ OrderIndependent
  /\ (Times("FindClass") > 0 /\ call.op = "h5libraryError") =>
       \A order \in CheckOrders :
         Called("FindClass", defineInOrder(order, 1, MajorRead))

\* h5libraryError has classified a code that only the last written check
\* recognizes.
C25_Witness ==
  /\ call.op = "h5libraryError"
  /\ MajorRead = MajorChecks[Len(MajorChecks)][1]
  /\ Called("FindClass", MajorChecks[Len(MajorChecks)][2])

(***************************************************************************)
(* C26.  The integer J2C returns for an unrecognized identifier.           *)
(***************************************************************************)

\* The integer the default branch of the switch returns.
FailureValue == Java_ncsa_hdf_hdf5lib_H5_J2C(0, NoException, JniAllOk).val.lit

\* The call just made is J2C and the integer it returned is known: a literal
\* of h5Constants.c, or a native value converted with (int).
J2CReturnedInteger ==
  /\ call.op = "J2C"
  /\ call.ret # "abort"
  /\ call.val.const = "" \/ call.val.cast = "int"

\* C26: the integer J2C returns for an unrecognized identifier, -1, is never
\* the integer it returns for an identifier with a live case, so the value
\* returned alone tells a failed translation from a successful one.
C26_FailureValueNeverReturnedOnSuccess ==
  /\ FailureValue = -1
  /\ (J2CReturnedInteger /\ call.arg[1] \in LiveIds) => call.val.lit # FailureValue

(***************************************************************************)
(* C27.  The two codes of one exception raised by h5libraryError.          *)
(***************************************************************************)

\* h5libraryError has raised an exception that carries the pair (maj, min).
LibraryErrorRaised == call.op = "h5libraryError" /\ ThrowSucceeded

\* Some entry of the error stack holds both codes of the pending exception.
CodesOfOneEntry ==
  \E i \in DOMAIN estack :
     /\ estack[i].maj_num = pending.maj
     /\ estack[i].min_num = pending.min

\* C27: the major and the minor code carried by an exception that
\* h5libraryError raised belong to one and the same entry of the error
\* stack, although two separate walks read them.
C27_CodesBelongToOneEntry == LibraryErrorRaised => CodesOfOneEntry

(***************************************************************************)
(* C28.  A dump requested to a file that cannot be opened.                 *)
(***************************************************************************)

\* printStackTrace0 was given a path, obtained its characters, and fopen
\* returned NULL.
DumpFileNotOpened ==
  /\ PrintRan
  /\ call.arg # NullString
  /\ call.io.getChars = "ok"
  /\ call.io.fopen = "NULL"

\* The streams the H5Eprint calls of the call just made were given.
PrintArguments ==
  {<<call.calls[i][2], call.calls[i][3]>> :
      i \in {j \in DOMAIN call.calls : call.calls[j][1] = "H5Eprint"}}

\* C28: when printStackTrace0 is given a file name and the file cannot be
\* opened, H5Eprint is not called with a null stream and nothing is written
\* to stderr: the dump goes to the named file or nowhere.
C28_UnopenedFileDumpsNowhere ==
  DumpFileNotOpened =>
    \A stream \in PrintArguments :
       /\ stream # NullStream
       /\ H5Eprint(stream) # Stderr

(***************************************************************************)
(* C29.  The classification is injective on the recognized categories.     *)
(***************************************************************************)

\* The class names the checks return.
RecognizedClasses == {MajorChecks[i][2] : i \in DOMAIN MajorChecks}

ClassificationInjective ==
  /\ \A m1, m2 \in RecognizedMajors :
        defineHDF5LibraryException(m1) = defineHDF5LibraryException(m2) => m1 = m2
  /\ \A m \in RecognizedMajors :
        defineHDF5LibraryException(m) # GenericLibraryException
  /\ Cardinality(RecognizedClasses) = Cardinality(RecognizedMajors)
  /\ \A m \in ClassifiedCodes \ RecognizedMajors :
        defineHDF5LibraryException(m) \notin RecognizedClasses

\* C29: two different recognized major codes never map to the same class
\* name and no recognized major code maps to the generic
\* HDF5LibraryException, so the class of an exception h5libraryError raised
\* identifies the major category: a specialised class is raised for the one
\* major code whose check returns it.
C29_KindIdentifiesCategory ==
  /\ ClassificationInjective
  /\ (LibraryErrorRaised /\ pending.class \in RecognizedClasses) =>
       \A m \in RecognizedMajors :
          defineHDF5LibraryException(m) = pending.class => m = MajorRead

\* h5libraryError has raised a specialised class for a recognized category.
C29_Witness ==
  /\ LibraryErrorRaised
  /\ estack # <<>>
  /\ MajorRead = "H5E_RESOURCE"
  /\ pending.class = "ncsa/hdf/hdf5lib/exceptions/HDF5ResourceUnavailableException"

(***************************************************************************)
(* C30.  The JNI readers and the readers h5libraryError uses.              *)
(***************************************************************************)

\* The value the JNI reader just returned is the value the internal reader
\* of the same code returns for the stack, whatever its local held.
JniReaderAgreesWithInternal ==
  /\ call.op = "getMajorErrorNumber" =>
       \A u \in UninitNums : getMajorErrorNumber(estack, u) = call.ret
  /\ call.op = "getMinorErrorNumber" =>
       \A u \in UninitNums : getMinorErrorNumber(estack, u) = call.ret

\* The codes in the payload of the exception just raised are the codes the
\* JNI readers return for the stack, whatever their locals hold.
PayloadAgreesWithJniReaders ==
  LibraryErrorRaised =>
    \A u \in UninitNums :
       /\ JNI_getMajorErrorNumber(estack, u).ret = pending.maj
       /\ JNI_getMinorErrorNumber(estack, u).ret = pending.min

\* C30: for the same error stack the JNI entry points getMajorErrorNumber
\* and getMinorErrorNumber return what the internal readers used by
\* h5libraryError return, so a code managed code queries while the stack is
\* unchanged equals the code in the payload of the exception raised.
C30_ReadersAgree ==
  /\ JniReaderAgreesWithInternal
  /\ PayloadAgreesWithJniReaders
=============================================================================
